---- MODULE Spec2Model ----
(***************************************************************************)
(* Verification model of the account-ledger backends of the repository.    *)
(*                                                                         *)
(* Money is counted in mills (1/1000 of a dollar), so that amounts below   *)
(* one cent and the rounding to two decimals done by the code are part of  *)
(* the model: $150.00 is 150000, $0.004 is 4.  Amounts are finite numbers. *)
(*                                                                         *)
(* The ledger variants of the repository are told apart by `variant`:      *)
(*   AMB  copilot_genereated/engineering/account_management_backend.py     *)
(*   G1   .../gemini-3-preview/trading_platform_backend.py                 *)
(*   G2   .../gemini-3-preview-second-run/trading_simulation.py            *)
(*   G3   .../gemini-3-preview-third-run/trading_simulation_trading_backend.py *)
(*   CG1  crew_generated/engineering/trading_simulation.py                 *)
(*   CG2  crew_generated/engineering/trading_simulation_backend.py         *)
(***************************************************************************)
EXTENDS Integers, Sequences, FiniteSets, TLC

(***************************************************************************)
(* Bounds of the model.                                                    *)
(***************************************************************************)
\* Largest number of transactions recorded over all accounts of a run.
MaxOps == 3

(***************************************************************************)
(* Inputs.                                                                 *)
(***************************************************************************)
NULL == "NULL"

\* Amounts passed to deposit / withdraw, in mills: -$1, $0, $0.004, $150, $300.
AmountInputs == {-1000, 0, 4, 150000, 300000}
\* Quantities passed to buy / sell.
QuantityInputs == {0, 1, 2}
\* Symbols passed to buy / sell: supported, lower case, unsupported, empty.
SymbolInputs == {"AAPL", "aapl", "TSLA", "XYZ", ""}
\* Usernames passed to create_account.
UsernameInputs == {"", "bob"}
\* Account identifiers: the uuid4 strings the repository hands out, in order, and
\* one that it never hands out.
AccountIds == <<"uuid1", "uuid2", "uuid3">>
UnknownId == "uuid9"
AccountIdInputs == {AccountIds[i] : i \in DOMAIN AccountIds} \cup {UnknownId}

\* str.upper() on the symbol inputs.
Upper(s) == IF s = "aapl" THEN "AAPL" ELSE s
\* str.strip() on the username inputs.
Strip(u) ==
    CASE u = " Bob" -> "Bob"
      [] u = " bob" -> "bob"
      [] u = " " -> ""
      [] OTHER -> u
\* A lower-casing that leaves its argument as it is.
Lower_identity(u) == u
\* str.lower() on the username and habit name inputs.
Lower(u) ==
    CASE u = "Bob" -> "bob"
      [] u = " Bob" -> " bob"
      [] u = "Read" -> "read"
      [] OTHER -> u

VARIABLES
    variant,    \* which implementation this run is of
    accounts,   \* AccountRepository._accounts: account_id -> Account
    clock,      \* last value returned by _now()
    call,       \* the operation called last
    resp,       \* the ResponseEnvelope it returned
    applied,    \* history: how many deposit/withdraw/buy/sell calls have succeeded
    lock,       \* AccountRepository._lock: the thread holding it
    threads,    \* concurrent callers: where each one is in its call, and its locals
    hist,       \* history: the calls that entered mutate, in the order they took the lock
    heap,       \* the objects behind the references callers and the repository hold
    habits,     \* HabitTracker.habits: name -> Habit
    today,      \* date.today(), in days since the tracker was first started
    data_file   \* the contents of the JSON file HabitTracker saves to and loads from

vars == <<variant, accounts, clock, call, resp, applied, lock, threads, hist, heap,
          habits, today, data_file>>

(***************************************************************************)
(* account_management_backend.py                                           *)
(***************************************************************************)
FIXED_PRICES == [s \in {"AAPL", "TSLA", "GOOGL"} |->
                    CASE s = "AAPL" -> 150000 [] s = "TSLA" -> 200000 [] s = "GOOGL" -> 180000]
SUPPORTED_SYMBOLS == DOMAIN FIXED_PRICES

\* The codes of DomainError's subclasses.
DomainErrors == {"VALIDATION_ERROR", "DUPLICATE_USERNAME", "NOT_FOUND", "INSUFFICIENT_FUNDS",
                 "INSUFFICIENT_SHARES", "PRICE_RETRIEVAL", "ATOMICITY_FAILURE", "SNAPSHOT_RANGE"}
\* An exception: its class (a DomainError's code, or "Exception") and its message.
Exc(code, message) == [code |-> code, message |-> message]
NoExc == Exc("none", "")

\* round() works on the binary double, which is never exactly a half cent for the
\* amounts used here: it lies just above or just below, and that decides the
\* direction.  These are the half-cent values, among the sums of a balance of
\* 150.00 i + 0.01 j (i, j in 0..4) and 0.005, whose double rounds up: round(0.005, 2)
\* is 0.01 and round(150.0 + 0.005, 2) is 150.0.
HalfCentsRoundedUp == {5, 25, 150025, 300045, 450045}

\* round(x, 2) on a non-negative amount of mills: to the nearest cent, a half cent as
\* its double falls.
Round2(x) ==
    LET r == x % 10
        lo == x - r
    IN  IF r < 5 THEN lo
        ELSE IF r > 5 THEN lo + 10
        ELSE IF x \in HalfCentsRoundedUp THEN lo + 10 ELSE lo

\* dict.get(symbol, 0)
HoldingsGet(holdings, symbol) == IF symbol \in DOMAIN holdings THEN holdings[symbol] ELSE 0
\* holdings[symbol] = qty
HoldingsSet(holdings, symbol, qty) ==
    [s \in DOMAIN holdings \cup {symbol} |-> IF s = symbol THEN qty ELSE holdings[s]]
\* del holdings[symbol]
HoldingsDel(holdings, symbol) == [s \in DOMAIN holdings \ {symbol} |-> holdings[s]]

_clone_holdings(holdings) == [s \in {t \in DOMAIN holdings : holdings[t] > 0} |-> holdings[s]]

\* An envelope built without its error code.
build_response_dropping_code(success, message, data, error_code) ==
    [success |-> success, message |-> message, data |-> data, error_code |-> NULL]

\* A message is named by the constant that holds its text.
build_response(success, message, data, error_code) ==
    [success |-> success, message |-> message, data |-> data, error_code |-> error_code]

\* An absent symbol is NULL; an absent quantity or price is 0 (a trade's are positive).
_create_transaction(account, tx_type, amount, symbol, quantity, price_per_share, now) ==
    [timestamp |-> now,
     type |-> tx_type,
     symbol |-> symbol,
     quantity |-> quantity,
     amount |-> Round2(amount),
     price_per_share |-> price_per_share,
     resulting_cash_balance |-> Round2(account.cash_balance),
     resulting_holdings |-> _clone_holdings(account.holdings)]

\* get_share_price: the price returned, or PriceRetrievalError raised.
get_share_price(symbol) ==
    IF Upper(symbol) \in DOMAIN FIXED_PRICES
    THEN [raised |-> NoExc, price |-> FIXED_PRICES[Upper(symbol)]]
    ELSE [raised |-> Exc("PRICE_RETRIEVAL", "PRICE_RETRIEVAL_MESSAGE"), price |-> 0]

\* A mutator's outcome: the account object as the mutator left it, and the exception
\* it raised (NoExc when it returned).
Returned(account) == [account |-> account, raised |-> NoExc]
Raised(account, exc) == [account |-> account, raised |-> exc]

\* A deposit that changes the balance and records nothing.
_apply_deposit_unrecorded(account, amount, now) ==
    Returned([account EXCEPT !.cash_balance = Round2(@ + amount)])

_apply_deposit(account, amount, now) ==
    LET a1 == [account EXCEPT !.cash_balance = Round2(@ + amount)]
        tx == _create_transaction(a1, "DEPOSIT", amount, NULL, 0, 0, now)
    IN  Returned([a1 EXCEPT !.transactions = Append(@, tx)])

\* A withdrawal that does not compare the amount with the balance.
_apply_withdrawal_unchecked(account, amount, now) ==
    LET a1 == [account EXCEPT !.cash_balance = Round2(@ - amount)]
        tx == _create_transaction(a1, "WITHDRAWAL", amount, NULL, 0, 0, now)
    IN  Returned([a1 EXCEPT !.transactions = Append(@, tx)])

_apply_withdrawal(account, amount, now) ==
    IF account.cash_balance < amount
    THEN Raised(account, Exc("INSUFFICIENT_FUNDS", "INSUFFICIENT_FUNDS_WITHDRAWAL"))
    ELSE LET a1 == [account EXCEPT !.cash_balance = Round2(@ - amount)]
             tx == _create_transaction(a1, "WITHDRAWAL", amount, NULL, 0, 0, now)
         IN  Returned([a1 EXCEPT !.transactions = Append(@, tx)])

\* A buy that stores the bought quantity over the held one.
_apply_buy_overwriting(account, symbol, quantity, price, total_cost, now) ==
    IF account.cash_balance < total_cost
    THEN Raised(account, Exc("INSUFFICIENT_FUNDS", "INSUFFICIENT_FUNDS_PURCHASE"))
    ELSE LET a1 == [account EXCEPT !.cash_balance = Round2(@ - total_cost)]
             a2 == [a1 EXCEPT !.holdings = HoldingsSet(@, symbol, quantity)]
             tx == _create_transaction(a2, "BUY", total_cost, symbol, quantity, price, now)
         IN  Returned([a2 EXCEPT !.transactions = Append(@, tx)])

_apply_buy(account, symbol, quantity, price, total_cost, now) ==
    IF account.cash_balance < total_cost
    THEN Raised(account, Exc("INSUFFICIENT_FUNDS", "INSUFFICIENT_FUNDS_PURCHASE"))
    ELSE LET a1 == [account EXCEPT !.cash_balance = Round2(@ - total_cost)]
             a2 == [a1 EXCEPT !.holdings =
                        HoldingsSet(@, symbol, HoldingsGet(@, symbol) + quantity)]
             tx == _create_transaction(a2, "BUY", total_cost, symbol, quantity, price, now)
         IN  Returned([a2 EXCEPT !.transactions = Append(@, tx)])

\* A sell that builds its transaction record before it changes the account.
_apply_sell_recording_first(account, symbol, quantity, price, proceeds, now) ==
    LET held == HoldingsGet(account.holdings, symbol)
    IN  IF held = 0
        THEN Raised(account, Exc("INSUFFICIENT_SHARES", "NO_HOLDINGS_FOR_SYMBOL_MESSAGE"))
        ELSE IF held < quantity
        THEN Raised(account, Exc("INSUFFICIENT_SHARES", "INSUFFICIENT_SHARES_MESSAGE"))
        ELSE LET remaining == held - quantity
                 tx == _create_transaction(account, "SELL", proceeds, symbol, quantity, price, now)
                 a1 == [account EXCEPT !.holdings =
                            IF remaining = 0 THEN HoldingsDel(@, symbol)
                            ELSE HoldingsSet(@, symbol, remaining)]
                 a2 == [a1 EXCEPT !.cash_balance = Round2(@ + proceeds)]
             IN  Returned([a2 EXCEPT !.transactions = Append(@, tx)])

\* A sell that stores the remaining quantity even when it is 0.
_apply_sell_keeping_entry(account, symbol, quantity, price, proceeds, now) ==
    LET held == HoldingsGet(account.holdings, symbol)
    IN  IF held = 0
        THEN Raised(account, Exc("INSUFFICIENT_SHARES", "NO_HOLDINGS_FOR_SYMBOL_MESSAGE"))
        ELSE IF held < quantity
        THEN Raised(account, Exc("INSUFFICIENT_SHARES", "INSUFFICIENT_SHARES_MESSAGE"))
        ELSE LET a1 == [account EXCEPT !.holdings = HoldingsSet(@, symbol, held - quantity)]
                 a2 == [a1 EXCEPT !.cash_balance = Round2(@ + proceeds)]
                 tx == _create_transaction(a2, "SELL", proceeds, symbol, quantity, price, now)
             IN  Returned([a2 EXCEPT !.transactions = Append(@, tx)])

_apply_sell(account, symbol, quantity, price, proceeds, now) ==
    LET held == HoldingsGet(account.holdings, symbol)
    IN  IF held = 0
        THEN Raised(account, Exc("INSUFFICIENT_SHARES", "NO_HOLDINGS_FOR_SYMBOL_MESSAGE"))
        ELSE IF held < quantity
        THEN Raised(account, Exc("INSUFFICIENT_SHARES", "INSUFFICIENT_SHARES_MESSAGE"))
        ELSE LET remaining == held - quantity
                 a1 == [account EXCEPT !.holdings =
                            IF remaining = 0 THEN HoldingsDel(@, symbol)
                            ELSE HoldingsSet(@, symbol, remaining)]
                 a2 == [a1 EXCEPT !.cash_balance = Round2(@ + proceeds)]
                 tx == _create_transaction(a2, "SELL", proceeds, symbol, quantity, price, now)
             IN  Returned([a2 EXCEPT !.transactions = Append(@, tx)])

\* A callable handed to AccountRepository.mutate that changes the cash balance, the
\* holdings and the transaction list of the account and then raises exc.
RaisingMutator(account, exc) ==
    Raised([account EXCEPT !.cash_balance = @ + 150000,
                           !.holdings = HoldingsSet(@, "AAPL", HoldingsGet(@, "AAPL") + 1),
                           !.transactions = <<>>], exc)

\* The mutators as data: what the callable passed to mutate does to the account.
RunMutator(account, m, now) ==
    CASE m.kind = "deposit" -> _apply_deposit(account, m.amount, now)
      [] m.kind = "withdrawal" -> _apply_withdrawal(account, m.amount, now)
      [] m.kind = "buy" -> _apply_buy(account, m.symbol, m.quantity, m.price, m.total, now)
      [] m.kind = "sell" -> _apply_sell(account, m.symbol, m.quantity, m.price, m.total, now)
      [] m.kind = "raising" -> RaisingMutator(account, m.exc)

\* A mutate that keeps whatever the mutator did before it raised.
mutate_without_rollback(accts, account_id, m, now) ==
    IF account_id \notin DOMAIN accts
    THEN [accounts |-> accts, raised |-> Exc("NOT_FOUND", "ACCOUNT_NOT_FOUND_MESSAGE"),
          updated |-> NULL]
    ELSE LET r == RunMutator(accts[account_id], m, now)
         IN  IF r.raised = NoExc
             THEN [accounts |-> [accts EXCEPT ![account_id] = r.account],
                   raised |-> NoExc, updated |-> r.account]
             ELSE [accounts |-> [accts EXCEPT ![account_id] = r.account],
                   raised |-> IF r.raised.code \in DomainErrors THEN r.raised
                              ELSE Exc("ATOMICITY_FAILURE", "Atomic operation failed."),
                   updated |-> NULL]

\* AccountRepository.mutate: the repository's accounts afterwards, the exception
\* raised (NoExc if it returned) and the copy of the account it returned.
mutate(accts, account_id, m, now) ==
    IF account_id \notin DOMAIN accts
    THEN [accounts |-> accts, raised |-> Exc("NOT_FOUND", "ACCOUNT_NOT_FOUND_MESSAGE"),
          updated |-> NULL]
    ELSE LET account == accts[account_id]
             snapshot == account
             r == RunMutator(account, m, now)
         IN  IF r.raised = NoExc
             THEN [accounts |-> [accts EXCEPT ![account_id] = r.account],
                   raised |-> NoExc, updated |-> r.account]
             ELSE IF r.raised.code \in DomainErrors
             THEN [accounts |-> [accts EXCEPT ![account_id] = snapshot],
                   raised |-> r.raised, updated |-> NULL]
             ELSE [accounts |-> [accts EXCEPT ![account_id] = snapshot],
                   raised |-> Exc("ATOMICITY_FAILURE", "Atomic operation failed."),
                   updated |-> NULL]

\* What a call leaves behind: the repository's accounts and the envelope returned.
Out(accts, envelope) == [accounts |-> accts, resp |-> envelope]

\* The except clauses of a service method around mutate.
ServiceResult(m, success_message, server_message) ==
    IF m.raised = NoExc
    THEN Out(m.accounts, build_response(TRUE, success_message, "payload", NULL))
    ELSE IF m.raised.code = "ATOMICITY_FAILURE"
    THEN Out(m.accounts, build_response(FALSE, server_message, NULL, "SERVER_ERROR"))
    ELSE Out(m.accounts, build_response(FALSE, m.raised.message, NULL, m.raised.code))

\* _ServiceBase._validation_error
_validation_error(accts, message) ==
    Out(accts, build_response(FALSE, message, NULL, "VALIDATION_ERROR"))

\* AccountRepository.create_account: uuid4() is the next identifier never handed out.
Repo_create_account(accts, username, now) ==
    LET cleaned_username == Strip(username)
        lowered == Lower(cleaned_username)
        account_id == AccountIds[Cardinality(DOMAIN accts) + 1]
    IN  IF \E id \in DOMAIN accts : Lower(accts[id].username) = lowered
        THEN [accounts |-> accts,
              raised |-> Exc("DUPLICATE_USERNAME", "DUPLICATE_USERNAME_MESSAGE")]
        ELSE [accounts |-> [id \in DOMAIN accts \cup {account_id} |->
                               IF id = account_id
                               THEN [username |-> cleaned_username, cash_balance |-> 0,
                                     holdings |-> <<>>, transactions |-> <<>>,
                                     created_at |-> now]
                               ELSE accts[id]],
              raised |-> NoExc]

\* AccountService.create_account
AMB_create_account(accts, username, now) ==
    LET username_value == Strip(username)
    IN  IF username_value = "" THEN _validation_error(accts, "USERNAME_REQUIRED_MESSAGE")
        ELSE LET r == Repo_create_account(accts, username_value, now)
             IN  IF r.raised = NoExc
                 THEN Out(r.accounts,
                          build_response(TRUE, "SUCCESS_ACCOUNT_CREATED", "account", NULL))
                 ELSE Out(accts, build_response(FALSE, r.raised.message, NULL, r.raised.code))

\* MoneyService.deposit
AMB_deposit(accts, account_id, amount, now) ==
    IF ~(amount > 0) THEN _validation_error(accts, "DEPOSIT_AMOUNT_REQUIRED_MESSAGE")
    ELSE ServiceResult(mutate(accts, account_id, [kind |-> "deposit", amount |-> amount], now),
                       "SUCCESS_DEPOSIT", "DEPOSIT_SERVER_ERROR")

\* MoneyService.withdraw
AMB_withdraw(accts, account_id, amount, now) ==
    IF ~(amount > 0) THEN _validation_error(accts, "WITHDRAW_AMOUNT_REQUIRED_MESSAGE")
    ELSE ServiceResult(mutate(accts, account_id,
                              [kind |-> "withdrawal", amount |-> amount], now),
                       "SUCCESS_WITHDRAWAL", "WITHDRAWAL_SERVER_ERROR")

\* TradingService.buy
AMB_buy(accts, account_id, symbol, quantity, now) ==
    LET sym == Upper(symbol)
        looked == get_share_price(sym)
        price == looked.price
        total_cost == price * quantity
    IN  IF sym = "" THEN _validation_error(accts, "SYMBOL_REQUIRED_MESSAGE")
        ELSE IF ~(quantity > 0) THEN _validation_error(accts, "QUANTITY_REQUIRED_MESSAGE")
        ELSE IF looked.raised # NoExc
        THEN Out(accts, build_response(FALSE, looked.raised.message, NULL, looked.raised.code))
        ELSE ServiceResult(mutate(accts, account_id,
                                  [kind |-> "buy", symbol |-> sym, quantity |-> quantity,
                                   price |-> price, total |-> total_cost], now),
                           "SUCCESS_BUY", "BUY_SERVER_ERROR")

\* TradingService.sell
AMB_sell(accts, account_id, symbol, quantity, now) ==
    LET sym == Upper(symbol)
        looked == get_share_price(sym)
        price == looked.price
        proceeds == price * quantity
    IN  IF sym = "" THEN _validation_error(accts, "SYMBOL_REQUIRED_MESSAGE")
        ELSE IF ~(quantity > 0) THEN _validation_error(accts, "QUANTITY_REQUIRED_MESSAGE")
        ELSE IF looked.raised # NoExc
        THEN Out(accts, build_response(FALSE, looked.raised.message, NULL, looked.raised.code))
        ELSE ServiceResult(mutate(accts, account_id,
                                  [kind |-> "sell", symbol |-> sym, quantity |-> quantity,
                                   price |-> price, total |-> proceeds], now),
                           "SUCCESS_SELL", "SELL_SERVER_ERROR")

\* A caller of AccountRepository.mutate whose mutator raises part-way, with the
\* services' mapping of the exception.
AMB_mutate_raising(accts, account_id, exc, now) ==
    ServiceResult(mutate(accts, account_id, [kind |-> "raising", exc |-> exc], now),
                  "", "SERVER_ERROR")

\* The exceptions a raising mutator is tried with: a DomainError and another one.
RaisableInputs == {Exc("VALIDATION_ERROR", "raised part-way"), Exc("Exception", "raised part-way")}

(***************************************************************************)
(* gemini-3-preview-second-run/trading_simulation.py: TradingEngine.       *)
(* Its methods return a message or raise; the envelope's error_code names  *)
(* the exception class raised.  Timestamps are left out.                   *)
(***************************************************************************)
\* The usernames the engines' operations are called with: an existing and an unknown one.
UserKeyInputs == {"bob", "zed"}

G2_Raise(accts, exc) == Out(accts, build_response(FALSE, "", NULL, exc))
G2_Return(accts) == Out(accts, build_response(TRUE, "", NULL, NULL))

\* TradingEngine.get_share_price: symbols outside the table cost 100.0.
G2_get_share_price(symbol) ==
    LET prices == [s \in {"AAPL", "TSLA", "GOOGL"} |->
                      CASE s = "AAPL" -> 150000 [] s = "TSLA" -> 200000 [] s = "GOOGL" -> 2800000]
    IN  IF Upper(symbol) \in DOMAIN prices THEN prices[Upper(symbol)] ELSE 100000

G2_create_account(accts, username) ==
    IF Strip(username) = "" THEN G2_Raise(accts, "ValidationError")
    ELSE LET name == Strip(username)
         IN  IF name \in DOMAIN accts THEN G2_Raise(accts, "ValidationError")
             ELSE G2_Return([u \in DOMAIN accts \cup {name} |->
                                IF u = name
                                THEN [username |-> name, cash_balance |-> 0,
                                      holdings |-> <<>>, transactions |-> <<>>]
                                ELSE accts[u]])

G2_deposit(accts, username, amount) ==
    IF amount <= 0 THEN G2_Raise(accts, "ValidationError")
    ELSE IF username \notin DOMAIN accts THEN G2_Raise(accts, "AccountNotFoundError")
    ELSE LET tx == [type |-> "DEPOSIT", symbol |-> NULL, quantity |-> 0, price |-> 0,
                    total_amount |-> amount]
         IN  G2_Return([accts EXCEPT ![username].cash_balance = @ + amount,
                                     ![username].transactions = Append(@, tx)])

G2_withdraw(accts, username, amount) ==
    IF amount <= 0 THEN G2_Raise(accts, "ValidationError")
    ELSE IF username \notin DOMAIN accts THEN G2_Raise(accts, "AccountNotFoundError")
    ELSE IF accts[username].cash_balance < amount
    THEN G2_Raise(accts, "InsufficientFundsError")
    ELSE LET tx == [type |-> "WITHDRAWAL", symbol |-> NULL, quantity |-> 0, price |-> 0,
                    total_amount |-> -amount]
         IN  G2_Return([accts EXCEPT ![username].cash_balance = @ - amount,
                                     ![username].transactions = Append(@, tx)])

G2_buy_shares(accts, username, symbol, quantity) ==
    IF quantity <= 0 THEN G2_Raise(accts, "ValidationError")
    ELSE IF username \notin DOMAIN accts THEN G2_Raise(accts, "AccountNotFoundError")
    ELSE LET account == accts[username]
             sym == Upper(symbol)
             price == G2_get_share_price(sym)
             total_cost == price * quantity
         IN  IF account.cash_balance < total_cost
             THEN G2_Raise(accts, "InsufficientFundsError")
             ELSE LET holding == IF sym \in DOMAIN account.holdings
                                 THEN account.holdings[sym]
                                 ELSE [symbol |-> sym, quantity |-> 0, average_cost |-> 0]
                      total_value_before == holding.quantity * holding.average_cost
                      new_quantity == holding.quantity + quantity
                      new_holding == [symbol |-> sym, quantity |-> new_quantity,
                                      average_cost |->
                                          (total_value_before + total_cost) \div new_quantity]
                      tx == [type |-> "BUY", symbol |-> sym, quantity |-> quantity,
                             price |-> price, total_amount |-> -total_cost]
                  IN  G2_Return([accts EXCEPT
                          ![username].cash_balance = @ - total_cost,
                          ![username].holdings = HoldingsSet(@, sym, new_holding),
                          ![username].transactions = Append(@, tx)])

G2_sell_shares(accts, username, symbol, quantity) ==
    IF quantity <= 0 THEN G2_Raise(accts, "ValidationError")
    ELSE IF username \notin DOMAIN accts THEN G2_Raise(accts, "AccountNotFoundError")
    ELSE LET account == accts[username]
             sym == Upper(symbol)
         IN  IF sym \notin DOMAIN account.holdings
             THEN G2_Raise(accts, "InsufficientHoldingsError")
             ELSE IF account.holdings[sym].quantity < quantity
             THEN G2_Raise(accts, "InsufficientHoldingsError")
             ELSE LET price == G2_get_share_price(sym)
                      total_proceeds == price * quantity
                      tx == [type |-> "SELL", symbol |-> sym, quantity |-> quantity,
                             price |-> price, total_amount |-> total_proceeds]
                  IN  G2_Return([accts EXCEPT
                          ![username].cash_balance = @ + total_proceeds,
                          ![username].holdings[sym].quantity = @ - quantity,
                          ![username].transactions = Append(@, tx)])

\* TradingEngine.get_portfolio_summary: a row for every holding of positive quantity.
G2_get_portfolio_summary(accts, username) ==
    {[symbol |-> s, quantity |-> accts[username].holdings[s].quantity,
      current_price |-> G2_get_share_price(s),
      total_value |-> accts[username].holdings[s].quantity * G2_get_share_price(s)] :
         s \in {h \in DOMAIN accts[username].holdings :
                   accts[username].holdings[h].quantity > 0}}

(***************************************************************************)
(* gemini-3-preview/trading_platform_backend.py: TradingEngine behind      *)
(* TradingService, which maps the engine's exceptions to codes.            *)
(***************************************************************************)
\* TradingService._error / _success: the envelope's 'code' key is error_code here.
G1_error(accts, code) == Out(accts, build_response(FALSE, "", NULL, code))
G1_success(accts, data) == Out(accts, build_response(TRUE, "", data, NULL))

\* A price lookup that falls back to a default price.
G1_get_share_price_defaulting(symbol) ==
    IF Upper(symbol) = "AAPL" THEN 150000
    ELSE IF Upper(symbol) = "TSLA" THEN 200000 ELSE 100000

\* get_share_price: symbols outside the table cost 0.0.
G1_get_share_price(symbol) ==
    LET prices == [s \in {"AAPL", "TSLA", "GOOGL"} |->
                      CASE s = "AAPL" -> 150000 [] s = "TSLA" -> 200000 [] s = "GOOGL" -> 100000]
    IN  IF Upper(symbol) \in DOMAIN prices THEN prices[Upper(symbol)] ELSE 0

\* TradingService.create_account over TradingEngine.create_account
G1_create_account(accts, username) ==
    IF Strip(username) = "" THEN G1_error(accts, "VALIDATION_ERROR")
    ELSE IF username \in DOMAIN accts THEN G1_error(accts, "DUPLICATE_USER")
    ELSE G1_success([u \in DOMAIN accts \cup {username} |->
                        IF u = username
                        THEN [username |-> username, cash_balance |-> 0, holdings |-> <<>>,
                              transactions |-> <<>>, initial_deposit |-> 0]
                        ELSE accts[u]], NULL)

\* TradingService.deposit over TradingEngine.deposit
G1_deposit(accts, username, amount) ==
    IF amount <= 0 THEN G1_error(accts, "VALIDATION_ERROR")
    ELSE IF username \notin DOMAIN accts THEN G1_error(accts, "VALIDATION_ERROR")
    ELSE LET balance == accts[username].cash_balance + amount
             tx == [type |-> "DEPOSIT", symbol |-> NULL, quantity |-> 0, price |-> 0,
                    amount |-> amount, balance_after |-> balance]
         IN  G1_success([accts EXCEPT ![username].cash_balance = balance,
                                      ![username].initial_deposit = @ + amount,
                                      ![username].transactions = Append(@, tx)], "payload")

\* A withdraw that records the amount without its sign.
G1_withdraw_recording_unsigned(accts, username, amount) ==
    IF amount <= 0 THEN G1_error(accts, "VALIDATION_ERROR")
    ELSE IF username \notin DOMAIN accts THEN G1_error(accts, "VALIDATION_ERROR")
    ELSE IF accts[username].cash_balance < amount THEN G1_error(accts, "INSUFFICIENT_FUNDS")
    ELSE LET balance == accts[username].cash_balance - amount
             tx == [type |-> "WITHDRAWAL", symbol |-> NULL, quantity |-> 0, price |-> 0,
                    amount |-> amount, balance_after |-> balance]
         IN  G1_success([accts EXCEPT ![username].cash_balance = balance,
                                      ![username].initial_deposit = @ - amount,
                                      ![username].transactions = Append(@, tx)], "payload")

\* TradingService.withdraw over TradingEngine.withdraw
G1_withdraw(accts, username, amount) ==
    IF amount <= 0 THEN G1_error(accts, "VALIDATION_ERROR")
    ELSE IF username \notin DOMAIN accts THEN G1_error(accts, "VALIDATION_ERROR")
    ELSE IF accts[username].cash_balance < amount THEN G1_error(accts, "INSUFFICIENT_FUNDS")
    ELSE LET balance == accts[username].cash_balance - amount
             tx == [type |-> "WITHDRAWAL", symbol |-> NULL, quantity |-> 0, price |-> 0,
                    amount |-> -amount, balance_after |-> balance]
         IN  G1_success([accts EXCEPT ![username].cash_balance = balance,
                                      ![username].initial_deposit = @ - amount,
                                      ![username].transactions = Append(@, tx)], "payload")

\* TradingService.buy_shares over TradingEngine.buy_shares: holdings are keyed by the
\* symbol as passed.
G1_buy_shares(accts, username, symbol, quantity) ==
    LET price == G1_get_share_price(symbol)
        cost == price * quantity
    IN  IF quantity <= 0 THEN G1_error(accts, "VALIDATION_ERROR")
        ELSE IF price = 0 THEN G1_error(accts, "VALIDATION_ERROR")
        ELSE IF username \notin DOMAIN accts THEN G1_error(accts, "VALIDATION_ERROR")
        ELSE IF accts[username].cash_balance < cost THEN G1_error(accts, "INSUFFICIENT_FUNDS")
        ELSE LET account == accts[username]
                 balance == account.cash_balance - cost
                 new_holding ==
                     IF symbol \in DOMAIN account.holdings
                     THEN LET holding == account.holdings[symbol]
                              total_cost == holding.quantity * holding.average_cost + cost
                          IN  [symbol |-> symbol, quantity |-> holding.quantity + quantity,
                               average_cost |-> total_cost \div (holding.quantity + quantity)]
                     ELSE [symbol |-> symbol, quantity |-> quantity, average_cost |-> price]
                 tx == [type |-> "BUY", symbol |-> symbol, quantity |-> quantity,
                        price |-> price, amount |-> -cost, balance_after |-> balance]
             IN  G1_success([accts EXCEPT
                     ![username].cash_balance = balance,
                     ![username].holdings = HoldingsSet(@, symbol, new_holding),
                     ![username].transactions = Append(@, tx)], "payload")

\* A sell that refuses to sell the whole holding.
G1_sell_shares_off_by_one(accts, username, symbol, quantity) ==
    IF quantity <= 0 THEN G1_error(accts, "VALIDATION_ERROR")
    ELSE IF username \notin DOMAIN accts THEN G1_error(accts, "VALIDATION_ERROR")
    ELSE IF symbol \notin DOMAIN accts[username].holdings
    THEN G1_error(accts, "INSUFFICIENT_SHARES")
    ELSE IF accts[username].holdings[symbol].quantity <= quantity
    THEN G1_error(accts, "INSUFFICIENT_SHARES")
    ELSE LET holding == accts[username].holdings[symbol]
             proceeds == G1_get_share_price(symbol) * quantity
             balance == accts[username].cash_balance + proceeds
             tx == [type |-> "SELL", symbol |-> symbol, quantity |-> quantity,
                    price |-> G1_get_share_price(symbol), amount |-> proceeds,
                    balance_after |-> balance]
         IN  G1_success([accts EXCEPT
                 ![username].cash_balance = balance,
                 ![username].holdings =
                     HoldingsSet(@, symbol,
                                 [holding EXCEPT !.quantity = @ - quantity]),
                 ![username].transactions = Append(@, tx)], "payload")

\* TradingService.sell_shares over TradingEngine.sell_shares
G1_sell_shares(accts, username, symbol, quantity) ==
    IF quantity <= 0 THEN G1_error(accts, "VALIDATION_ERROR")
    ELSE IF username \notin DOMAIN accts THEN G1_error(accts, "VALIDATION_ERROR")
    ELSE LET account == accts[username]
         IN  IF symbol \notin DOMAIN account.holdings
             THEN G1_error(accts, "INSUFFICIENT_SHARES")
             ELSE IF account.holdings[symbol].quantity < quantity
             THEN G1_error(accts, "INSUFFICIENT_SHARES")
             ELSE LET holding == account.holdings[symbol]
                      price == G1_get_share_price(symbol)
                      proceeds == price * quantity
                      balance == account.cash_balance + proceeds
                      remaining == holding.quantity - quantity
                      tx == [type |-> "SELL", symbol |-> symbol, quantity |-> quantity,
                             price |-> price, amount |-> proceeds, balance_after |-> balance]
                  IN  G1_success([accts EXCEPT
                          ![username].cash_balance = balance,
                          ![username].holdings =
                              IF remaining = 0 THEN HoldingsDel(@, symbol)
                              ELSE HoldingsSet(@, symbol,
                                               [holding EXCEPT !.quantity = remaining]),
                          ![username].transactions = Append(@, tx)], "payload")

(***************************************************************************)
(* gemini-3-preview-third-run/trading_simulation_trading_backend.py: one   *)
(* TradingAccount object, held by the caller (absent until created) and    *)
(* passed to the *_service functions.  It is stored under the key "self".  *)
(***************************************************************************)
Self == "self"

\* USERNAME_REGEX ^[a-zA-Z0-9_]{3,50}$ on the usernames used here
MatchesUsernameRegex(username) == username \in {"bob"}

G3_fail(accts, code) == Out(accts, build_response(FALSE, "", NULL, code))
G3_ok(accts) == Out(accts, build_response(TRUE, "", "payload", NULL))

\* get_share_price: case-sensitive lookup, InvalidSymbolError for anything else.
G3_get_share_price(symbol) ==
    LET prices == [s \in {"AAPL", "TSLA", "GOOGL"} |->
                      CASE s = "AAPL" -> 150000 [] s = "TSLA" -> 800000 [] s = "GOOGL" -> 2800000]
    IN  IF symbol \in DOMAIN prices
        THEN [raised |-> NoExc, price |-> prices[symbol]]
        ELSE [raised |-> Exc("INVALID_SYMBOL", "InvalidSymbolError"), price |-> 0]

\* create_account_service over TradingAccount.__init__
G3_create_account_service(accts, username, initial_deposit) ==
    IF Strip(username) = "" \/ ~MatchesUsernameRegex(username)
    THEN G3_fail(accts, "VALIDATION_ERROR")
    ELSE IF initial_deposit <= 0 THEN G3_fail(accts, "VALIDATION_ERROR")
    ELSE G3_ok([k \in {Self} |->
                   [username |-> username, initial_deposit |-> initial_deposit,
                    cash |-> initial_deposit, holdings |-> <<>>, transactions |-> <<>>,
                    net_capital_invested |-> initial_deposit]])

\* deposit_service over TradingAccount.deposit
G3_deposit_service(accts, amount) ==
    IF Self \notin DOMAIN accts THEN G3_fail(accts, "NO_ACCOUNT")
    ELSE IF amount <= 0 THEN G3_fail(accts, "VALIDATION_ERROR")
    ELSE LET cash == accts[Self].cash + amount
             tx == [type |-> "DEPOSIT", symbol |-> NULL, quantity |-> 0, price |-> 0,
                    amount |-> amount, balance_after |-> cash]
         IN  G3_ok([accts EXCEPT ![Self].cash = cash,
                                 ![Self].net_capital_invested = @ + amount,
                                 ![Self].transactions = Append(@, tx)])

\* withdraw_service over TradingAccount.withdraw
G3_withdraw_service(accts, amount) ==
    IF Self \notin DOMAIN accts THEN G3_fail(accts, "NO_ACCOUNT")
    ELSE IF amount <= 0 THEN G3_fail(accts, "VALIDATION_ERROR")
    ELSE IF amount > accts[Self].cash THEN G3_fail(accts, "INSUFFICIENT_FUNDS")
    ELSE LET cash == accts[Self].cash - amount
             tx == [type |-> "WITHDRAWAL", symbol |-> NULL, quantity |-> 0, price |-> 0,
                    amount |-> amount, balance_after |-> cash]
         IN  G3_ok([accts EXCEPT ![Self].cash = cash,
                                 ![Self].net_capital_invested = @ - amount,
                                 ![Self].transactions = Append(@, tx)])

\* buy_stock_service over TradingAccount.buy_stock
G3_buy_stock_service(accts, symbol, quantity) ==
    IF Self \notin DOMAIN accts THEN G3_fail(accts, "NO_ACCOUNT")
    ELSE LET lookup == G3_get_share_price(symbol)
             current_price == lookup.price
             account == accts[Self]
             total_cost == quantity * current_price
         IN  IF lookup.raised # NoExc THEN G3_fail(accts, lookup.raised.code)
             ELSE IF symbol = "" THEN G3_fail(accts, "VALIDATION_ERROR")
             ELSE IF symbol \notin {"AAPL", "TSLA", "GOOGL"}
             THEN G3_fail(accts, "INVALID_SYMBOL")
             ELSE IF quantity <= 0 THEN G3_fail(accts, "VALIDATION_ERROR")
             ELSE IF total_cost > account.cash THEN G3_fail(accts, "INSUFFICIENT_FUNDS")
             ELSE LET cash == account.cash - total_cost
                      new_holding ==
                          IF symbol \in DOMAIN account.holdings
                          THEN LET holding == account.holdings[symbol]
                                   total_shares == holding.quantity + quantity
                                   new_total_cost ==
                                       holding.quantity * holding.average_cost + total_cost
                               IN  [symbol |-> symbol, quantity |-> total_shares,
                                    average_cost |-> new_total_cost \div total_shares]
                          ELSE [symbol |-> symbol, quantity |-> quantity,
                                average_cost |-> current_price]
                      tx == [type |-> "BUY", symbol |-> symbol, quantity |-> quantity,
                             price |-> current_price, amount |-> total_cost,
                             balance_after |-> cash]
                  IN  G3_ok([accts EXCEPT
                          ![Self].cash = cash,
                          ![Self].holdings = HoldingsSet(@, symbol, new_holding),
                          ![Self].transactions = Append(@, tx)])

\* sell_stock_service over TradingAccount.sell_stock
G3_sell_stock_service(accts, symbol, quantity) ==
    IF Self \notin DOMAIN accts THEN G3_fail(accts, "NO_ACCOUNT")
    ELSE LET lookup == G3_get_share_price(symbol)
             current_price == lookup.price
             account == accts[Self]
         IN  IF lookup.raised # NoExc THEN G3_fail(accts, lookup.raised.code)
             ELSE IF symbol = "" THEN G3_fail(accts, "VALIDATION_ERROR")
             ELSE IF quantity <= 0 THEN G3_fail(accts, "VALIDATION_ERROR")
             ELSE IF symbol \notin DOMAIN account.holdings
             THEN G3_fail(accts, "INSUFFICIENT_SHARES")
             ELSE IF quantity > account.holdings[symbol].quantity
             THEN G3_fail(accts, "INSUFFICIENT_SHARES")
             ELSE LET holding == account.holdings[symbol]
                      total_proceeds == quantity * current_price
                      cash == account.cash + total_proceeds
                      remaining == holding.quantity - quantity
                      tx == [type |-> "SELL", symbol |-> symbol, quantity |-> quantity,
                             price |-> current_price, amount |-> total_proceeds,
                             balance_after |-> cash]
                  IN  G3_ok([accts EXCEPT
                          ![Self].cash = cash,
                          ![Self].holdings =
                              IF remaining = 0 THEN HoldingsDel(@, symbol)
                              ELSE HoldingsSet(@, symbol,
                                               [holding EXCEPT !.quantity = remaining]),
                          ![Self].transactions = Append(@, tx)])

(***************************************************************************)
(* crew_generated/engineering/trading_simulation.py (CG1) and              *)
(* trading_simulation_backend.py (CG2): one account object with Decimal    *)
(* money quantized to cents.  ServiceResponse carries no code; its message *)
(* is modelled by the name of the exception it was built from.             *)
(***************************************************************************)
\* Decimal(str(x)).quantize(Decimal("0.01")) under the default ROUND_HALF_EVEN: the
\* decimal digits are rounded, a half cent to the even cent.
Quantize(x) ==
    LET r == x % 10
        lo == x - r
    IN  IF r < 5 THEN lo
        ELSE IF r > 5 THEN lo + 10
        ELSE IF (lo \div 10) % 2 = 0 THEN lo ELSE lo + 10

\* An initialize that does not look at the initialized flag.
CG_initialize_unguarded(accts, deposit_amount) ==
    IF deposit_amount <= 0 THEN Out(accts, build_response(FALSE, "not positive", NULL, NULL))
    ELSE LET amount == Quantize(deposit_amount)
         IN  Out([accts EXCEPT ![Self].cash_balance = amount,
                               ![Self].total_deposits = amount,
                               ![Self].initialized = TRUE,
                               ![Self].transactions =
                                   Append(@, [type |-> "INITIALIZE", symbol |-> NULL,
                                              quantity |-> 0, price_per_share |-> 0,
                                              total_value |-> amount])],
                 build_response(TRUE, "ok", NULL, NULL))

ServiceResponse(accts, success, message) ==
    Out(accts, build_response(success, message, NULL, NULL))

\* TradingSimulation.__init__ / TradingAccount.__init__
CG_new_account ==
    [cash_balance |-> 0, holdings |-> <<>>, transactions |-> <<>>,
     total_deposits |-> 0, total_withdrawals |-> 0, initialized |-> FALSE]

\* get_share_price of both crew modules: upper-cased lookup, InvalidSymbolError otherwise.
CG_get_share_price(symbol) ==
    LET _mock_prices == [s \in {"AAPL", "TSLA", "GOOGL"} |->
                      CASE s = "AAPL" -> 150000 [] s = "TSLA" -> 200000 [] s = "GOOGL" -> 130000]
    IN  IF Upper(symbol) \in DOMAIN _mock_prices
        THEN [raised |-> NoExc, price |-> _mock_prices[Upper(symbol)]]
        ELSE [raised |-> Exc(NULL, "InvalidSymbolError"), price |-> 0]

CG_Transaction(type, symbol, quantity, price_per_share, total_value) ==
    [type |-> type, symbol |-> symbol, quantity |-> quantity,
     price_per_share |-> price_per_share, total_value |-> total_value]

\* initialize (the same code in both modules)
CG_initialize(accts, deposit_amount) ==
    IF accts[Self].initialized THEN ServiceResponse(accts, FALSE, "already initialized")
    ELSE IF deposit_amount <= 0 THEN ServiceResponse(accts, FALSE, "not positive")
    ELSE LET amount == Quantize(deposit_amount)
             tx == CG_Transaction("INITIALIZE", NULL, 0, 0, amount)
         IN  ServiceResponse([accts EXCEPT ![Self].cash_balance = amount,
                                           ![Self].total_deposits = amount,
                                           ![Self].initialized = TRUE,
                                           ![Self].transactions = Append(@, tx)],
                             TRUE, "ok")

\* deposit (the same code in both modules)
CG_deposit(accts, amount) ==
    IF amount <= 0 THEN ServiceResponse(accts, FALSE, "InvalidAmountError")
    ELSE LET dec_amount == Quantize(amount)
             tx == CG_Transaction("DEPOSIT", NULL, 0, 0, dec_amount)
         IN  ServiceResponse([accts EXCEPT ![Self].cash_balance = @ + dec_amount,
                                           ![Self].total_deposits = @ + dec_amount,
                                           ![Self].transactions = Append(@, tx)],
                             TRUE, "ok")

\* withdraw (the same code in both modules)
CG_withdraw(accts, amount) ==
    IF amount <= 0 THEN ServiceResponse(accts, FALSE, "InvalidAmountError")
    ELSE LET dec_amount == Quantize(amount)
             tx == CG_Transaction("WITHDRAW", NULL, 0, 0, -dec_amount)
         IN  IF dec_amount > accts[Self].cash_balance
             THEN ServiceResponse(accts, FALSE, "InsufficientFundsError")
             ELSE ServiceResponse([accts EXCEPT ![Self].cash_balance = @ - dec_amount,
                                                ![Self].total_withdrawals = @ + dec_amount,
                                                ![Self].transactions = Append(@, tx)],
                                  TRUE, "ok")

\* buy_shares: key is the holdings key, symbol.upper() in CG1 and the raw symbol in CG2.
CG_buy(accts, key, quantity) ==
    IF quantity <= 0 THEN ServiceResponse(accts, FALSE, "InvalidAmountError")
    ELSE LET lookup == CG_get_share_price(key)
             price_per_share == lookup.price
             total_cost == Quantize(price_per_share * quantity)
             account == accts[Self]
             tx == CG_Transaction("BUY", key, quantity, price_per_share, -total_cost)
         IN  IF lookup.raised # NoExc THEN ServiceResponse(accts, FALSE, lookup.raised.message)
             ELSE IF total_cost > account.cash_balance
             THEN ServiceResponse(accts, FALSE, "InsufficientFundsError")
             ELSE ServiceResponse(
                      [accts EXCEPT
                          ![Self].cash_balance = @ - total_cost,
                          ![Self].holdings =
                              HoldingsSet(@, key, HoldingsGet(@, key) + quantity),
                          ![Self].transactions = Append(@, tx)],
                      TRUE, "ok")

\* sell_shares: key as in CG_buy.
CG_sell(accts, key, quantity) ==
    IF quantity <= 0 THEN ServiceResponse(accts, FALSE, "InvalidAmountError")
    ELSE LET account == accts[Self]
             current_holding == HoldingsGet(account.holdings, key)
             lookup == CG_get_share_price(key)
             price_per_share == lookup.price
             total_proceeds == Quantize(price_per_share * quantity)
             tx == CG_Transaction("SELL", key, quantity, price_per_share, total_proceeds)
         IN  IF quantity > current_holding
             THEN ServiceResponse(accts, FALSE, "InsufficientHoldingsError")
             ELSE IF lookup.raised # NoExc
             THEN ServiceResponse(accts, FALSE, lookup.raised.message)
             ELSE ServiceResponse(
                      [accts EXCEPT
                          ![Self].cash_balance = @ + total_proceeds,
                          ![Self].holdings =
                              IF current_holding - quantity = 0 THEN HoldingsDel(@, key)
                              ELSE HoldingsSet(@, key, current_holding - quantity),
                          ![Self].transactions = Append(@, tx)],
                      TRUE, "ok")

CG1_buy_shares(accts, symbol, quantity) == CG_buy(accts, Upper(symbol), quantity)
CG1_sell_shares(accts, symbol, quantity) == CG_sell(accts, Upper(symbol), quantity)
CG2_buy_shares(accts, symbol, quantity) == CG_buy(accts, symbol, quantity)
CG2_sell_shares(accts, symbol, quantity) == CG_sell(accts, symbol, quantity)

(***************************************************************************)
(* The state machine.                                                      *)
(***************************************************************************)
\* Number of transactions recorded in the repository.
TotalTx(accts) ==
    LET RECURSIVE Sum(_)
        Sum(S) == IF S = {} THEN 0
                  ELSE LET x == CHOOSE y \in S : TRUE
                       IN  Len(accts[x].transactions) + Sum(S \ {x})
    IN  Sum(DOMAIN accts)

\* The reads of the clock: in these runs every read of _now() returns the same
\* instant (the ledger operations never branch on the time).
Nows == {clock}

\* The operations that record a transaction.
LedgerOps == {"deposit", "withdraw", "buy", "sell"}

\* No thread.
NoThread == "none"

\* A call of operation op returned out, having read the clock as now if it succeeded.
Do(op, out, now) ==
    /\ out.resp.success => TotalTx(out.accounts) <= MaxOps
    /\ accounts' = out.accounts
    /\ clock' = IF out.resp.success THEN now ELSE clock
    /\ call' = op
    /\ resp' = out.resp
    /\ applied' = IF out.resp.success /\ op \in LedgerOps THEN applied + 1 ELSE applied
    /\ UNCHANGED <<variant, habits, today, data_file, heap, lock, threads, hist>>

Step_AMB_create_account ==
    /\ variant = "AMB"
    /\ \E username \in UsernameInputs, now \in Nows :
        /\ Cardinality(DOMAIN accounts) < Len(AccountIds)
        /\ Do("create_account", AMB_create_account(accounts, username, now), now)

Step_AMB_deposit ==
    /\ variant = "AMB"
    /\ \E account_id \in AccountIdInputs, amount \in AmountInputs, now \in Nows :
        Do("deposit", AMB_deposit(accounts, account_id, amount, now), now)

Step_AMB_withdraw ==
    /\ variant = "AMB"
    /\ \E account_id \in AccountIdInputs, amount \in AmountInputs, now \in Nows :
        Do("withdraw", AMB_withdraw(accounts, account_id, amount, now), now)

Step_AMB_buy ==
    /\ variant = "AMB"
    /\ \E account_id \in AccountIdInputs, symbol \in SymbolInputs,
          quantity \in QuantityInputs, now \in Nows :
        Do("buy", AMB_buy(accounts, account_id, symbol, quantity, now), now)

Step_AMB_sell ==
    /\ variant = "AMB"
    /\ \E account_id \in AccountIdInputs, symbol \in SymbolInputs,
          quantity \in QuantityInputs, now \in Nows :
        Do("sell", AMB_sell(accounts, account_id, symbol, quantity, now), now)

Step_AMB_mutate_raising ==
    /\ variant = "AMB"
    /\ \E account_id \in AccountIdInputs, exc \in RaisableInputs, now \in Nows :
        Do("mutate", AMB_mutate_raising(accounts, account_id, exc, now), now)

Step_G2_create_account ==
    /\ variant = "G2"
    /\ \E username \in UsernameInputs :
        Do("create_account", G2_create_account(accounts, username), clock)

Step_G2_deposit ==
    /\ variant = "G2"
    /\ \E username \in UserKeyInputs, amount \in AmountInputs :
        Do("deposit", G2_deposit(accounts, username, amount), clock)

Step_G2_withdraw ==
    /\ variant = "G2"
    /\ \E username \in UserKeyInputs, amount \in AmountInputs :
        Do("withdraw", G2_withdraw(accounts, username, amount), clock)

Step_G2_buy_shares ==
    /\ variant = "G2"
    /\ \E username \in UserKeyInputs, symbol \in SymbolInputs, quantity \in QuantityInputs :
        Do("buy", G2_buy_shares(accounts, username, symbol, quantity), clock)

Step_G2_sell_shares ==
    /\ variant = "G2"
    /\ \E username \in UserKeyInputs, symbol \in SymbolInputs, quantity \in QuantityInputs :
        Do("sell", G2_sell_shares(accounts, username, symbol, quantity), clock)

Step_G1_create_account ==
    /\ variant = "G1"
    /\ \E username \in UsernameInputs :
        Do("create_account", G1_create_account(accounts, username), clock)

Step_G1_deposit ==
    /\ variant = "G1"
    /\ \E username \in UserKeyInputs, amount \in AmountInputs :
        Do("deposit", G1_deposit(accounts, username, amount), clock)

Step_G1_withdraw ==
    /\ variant = "G1"
    /\ \E username \in UserKeyInputs, amount \in AmountInputs :
        Do("withdraw", G1_withdraw(accounts, username, amount), clock)

Step_G1_buy_shares ==
    /\ variant = "G1"
    /\ \E username \in UserKeyInputs, symbol \in SymbolInputs, quantity \in QuantityInputs :
        Do("buy", G1_buy_shares(accounts, username, symbol, quantity), clock)

Step_G1_sell_shares ==
    /\ variant = "G1"
    /\ \E username \in UserKeyInputs, symbol \in SymbolInputs, quantity \in QuantityInputs :
        Do("sell", G1_sell_shares(accounts, username, symbol, quantity), clock)

\* app.py on_create_account: the creation form is hidden once an account exists.
Step_G3_create_account_service ==
    /\ variant = "G3"
    /\ Self \notin DOMAIN accounts
    /\ \E username \in UsernameInputs, initial_deposit \in AmountInputs :
        Do("create_account", G3_create_account_service(accounts, username, initial_deposit),
           clock)

Step_G3_deposit_service ==
    /\ variant = "G3"
    /\ \E amount \in AmountInputs :
        Do("deposit", G3_deposit_service(accounts, amount), clock)

Step_G3_withdraw_service ==
    /\ variant = "G3"
    /\ \E amount \in AmountInputs :
        Do("withdraw", G3_withdraw_service(accounts, amount), clock)

Step_G3_buy_stock_service ==
    /\ variant = "G3"
    /\ \E symbol \in SymbolInputs, quantity \in QuantityInputs :
        Do("buy", G3_buy_stock_service(accounts, symbol, quantity), clock)

Step_G3_sell_stock_service ==
    /\ variant = "G3"
    /\ \E symbol \in SymbolInputs, quantity \in QuantityInputs :
        Do("sell", G3_sell_stock_service(accounts, symbol, quantity), clock)

Step_CG_initialize ==
    /\ variant \in {"CG1", "CG2"}
    /\ \E deposit_amount \in AmountInputs :
        Do("initialize", CG_initialize(accounts, deposit_amount), clock)

Step_CG_deposit ==
    /\ variant \in {"CG1", "CG2"}
    /\ \E amount \in AmountInputs :
        Do("deposit", CG_deposit(accounts, amount), clock)

Step_CG_withdraw ==
    /\ variant \in {"CG1", "CG2"}
    /\ \E amount \in AmountInputs :
        Do("withdraw", CG_withdraw(accounts, amount), clock)

Step_CG1_buy_shares ==
    /\ variant = "CG1"
    /\ \E symbol \in SymbolInputs, quantity \in QuantityInputs :
        Do("buy", CG1_buy_shares(accounts, symbol, quantity), clock)

Step_CG1_sell_shares ==
    /\ variant = "CG1"
    /\ \E symbol \in SymbolInputs, quantity \in QuantityInputs :
        Do("sell", CG1_sell_shares(accounts, symbol, quantity), clock)

Step_CG2_buy_shares ==
    /\ variant = "CG2"
    /\ \E symbol \in SymbolInputs, quantity \in QuantityInputs :
        Do("buy", CG2_buy_shares(accounts, symbol, quantity), clock)

Step_CG2_sell_shares ==
    /\ variant = "CG2"
    /\ \E symbol \in SymbolInputs, quantity \in QuantityInputs :
        Do("sell", CG2_sell_shares(accounts, symbol, quantity), clock)

(***************************************************************************)
(* account_management_backend.py: the read operations of the facade,       *)
(* PortfolioService and TransactionHistoryService over AccountRepository.  *)
(***************************************************************************)
\* AccountRepository.get: a copy of the account, or NotFoundError raised.
Repo_get(accts, account_id) ==
    IF account_id \notin DOMAIN accts
    THEN [raised |-> Exc("NOT_FOUND", "ACCOUNT_NOT_FOUND_MESSAGE"), account |-> NULL]
    ELSE [raised |-> NoExc, account |-> accts[account_id]]

\* The loop of compute_portfolio over the holdings: the market values of the symbols
\* the price lookup knows, each rounded to cents, added up.
RECURSIVE AMB_holdings_value(_, _)
AMB_holdings_value(holdings, symbols) ==
    IF symbols = {} THEN 0
    ELSE LET symbol == CHOOSE s \in symbols : TRUE
             looked == get_share_price(symbol)
             market_value == IF looked.raised = NoExc
                             THEN Round2(looked.price * holdings[symbol]) ELSE 0
         IN  market_value + AMB_holdings_value(holdings, symbols \ {symbol})

\* The data of the envelope of compute_portfolio.
AMB_portfolio_data(account) ==
    LET total_holdings_value == AMB_holdings_value(account.holdings, DOMAIN account.holdings)
    IN  [cash_balance |-> Round2(account.cash_balance),
         total_holdings_value |-> Round2(total_holdings_value),
         total_portfolio_value |-> Round2(account.cash_balance + total_holdings_value),
         warning |-> \E s \in DOMAIN account.holdings : get_share_price(s).raised # NoExc]

\* PortfolioService.compute_portfolio
AMB_compute_portfolio(accts, account_id) ==
    LET got == Repo_get(accts, account_id)
    IN  IF got.raised # NoExc
        THEN Out(accts, build_response(FALSE, got.raised.message, NULL, got.raised.code))
        ELSE LET account == got.account
                 message == IF DOMAIN account.holdings = {} /\ account.cash_balance = 0
                            THEN "EMPTY_PORTFOLIO_MESSAGE" ELSE "SUCCESS_PORTFOLIO_LOADED"
             IN  Out(accts, build_response(TRUE, message, "portfolio", NULL))

\* sum(tx.amount for tx in account.transactions if tx.type == "DEPOSIT")
RECURSIVE SumAmounts(_, _)
SumAmounts(transactions, types) ==
    IF transactions = <<>> THEN 0
    ELSE (IF Head(transactions).type \in types THEN Head(transactions).amount ELSE 0)
         + SumAmounts(Tail(transactions), types)

\* The data of the envelope of compute_profit_loss; a profit_loss of None is 0 under
\* the status NO_BASELINE.
AMB_profit_loss_data(account) ==
    LET baseline == SumAmounts(account.transactions, {"DEPOSIT"})
        total_value == AMB_portfolio_data(account).total_portfolio_value
        profit_loss == Round2(total_value - baseline)
    IN  IF baseline = 0
        THEN [baseline |-> 0, total_portfolio_value |-> total_value, profit_loss |-> 0,
              status |-> "NO_BASELINE"]
        ELSE [baseline |-> Round2(baseline), total_portfolio_value |-> total_value,
              profit_loss |-> profit_loss,
              status |-> IF profit_loss > 0 THEN "Profit"
                         ELSE IF profit_loss < 0 THEN "Loss" ELSE "Break-even"]

\* PortfolioService.compute_profit_loss
AMB_compute_profit_loss(accts, account_id) ==
    LET portfolio == AMB_compute_portfolio(accts, account_id)
    IN  IF ~portfolio.resp.success THEN portfolio
        ELSE IF AMB_profit_loss_data(accts[account_id]).status = "NO_BASELINE"
        THEN Out(accts, build_response(TRUE, "NO_BASELINE_MESSAGE", "profit_loss", NULL))
        ELSE Out(accts, build_response(TRUE, "P/L calculated.", "profit_loss", NULL))

\* The filters passed to transactions(): None, "ALL", a type and a symbol in lower case.
TxTypeInputs == {NULL, "ALL", "deposit", "buy"}
TxSymbolInputs == {NULL, "aapl"}
\* str.upper() on the filter inputs.
UpperFilter(f) ==
    CASE f = "deposit" -> "DEPOSIT"
      [] f = "buy" -> "BUY"
      [] OTHER -> Upper(f)

\* The rows of list_transactions: the transactions that pass the filters (None when
\* the filter is absent or "ALL").
AMB_filter_rows(transactions, tx_type, symbol) ==
    LET filter_type == IF tx_type # NULL /\ UpperFilter(tx_type) # "ALL"
                       THEN UpperFilter(tx_type) ELSE NULL
        filter_symbol == IF symbol # NULL /\ UpperFilter(symbol) # "ALL"
                         THEN UpperFilter(symbol) ELSE NULL
    IN  SelectSeq(transactions,
                  LAMBDA tx : /\ filter_type # NULL => tx.type = filter_type
                              /\ filter_symbol # NULL => Upper(tx.symbol) = filter_symbol)

\* TransactionHistoryService.list_transactions
AMB_list_transactions(accts, account_id, tx_type, symbol) ==
    LET got == Repo_get(accts, account_id)
    IN  IF got.raised # NoExc
        THEN Out(accts, build_response(FALSE, got.raised.message, NULL, got.raised.code))
        ELSE IF got.account.transactions = <<>>
        THEN Out(accts, build_response(TRUE, "No transactions have been recorded yet.",
                                       "transactions", NULL))
        ELSE IF AMB_filter_rows(got.account.transactions, tx_type, symbol) = <<>>
        THEN Out(accts, build_response(TRUE, "No transactions match the selected filters.",
                                       "transactions", NULL))
        ELSE Out(accts, build_response(TRUE, "SUCCESS_TRANSACTIONS_LOADED",
                                       "transactions", NULL))

Step_AMB_portfolio ==
    /\ variant = "AMB"
    /\ \E account_id \in AccountIdInputs, now \in Nows :
        Do("portfolio", AMB_compute_portfolio(accounts, account_id), now)

Step_AMB_profit_loss ==
    /\ variant = "AMB"
    /\ \E account_id \in AccountIdInputs, now \in Nows :
        Do("profit_loss", AMB_compute_profit_loss(accounts, account_id), now)

Step_AMB_transactions ==
    /\ variant = "AMB"
    /\ \E account_id \in AccountIdInputs, tx_type \in TxTypeInputs,
          symbol \in TxSymbolInputs, now \in Nows :
        Do("transactions", AMB_list_transactions(accounts, account_id, tx_type, symbol), now)

\* TradingService.get_portfolio over TradingEngine.get_portfolio (gemini-3-preview)
G1_get_portfolio(accts, username) ==
    IF username \notin DOMAIN accts THEN G1_error(accts, "USER_NOT_FOUND")
    ELSE G1_success(accts, "portfolio")

\* TradingService.get_transaction_history over TradingEngine.get_transaction_history
G1_get_transaction_history(accts, username) ==
    IF username \notin DOMAIN accts THEN G1_error(accts, "USER_NOT_FOUND")
    ELSE G1_success(accts, "history")

Step_G1_get_portfolio ==
    /\ variant = "G1"
    /\ \E username \in UserKeyInputs :
        Do("portfolio", G1_get_portfolio(accounts, username), clock)

Step_G1_get_transaction_history ==
    /\ variant = "G1"
    /\ \E username \in UserKeyInputs :
        Do("transactions", G1_get_transaction_history(accounts, username), clock)

\* sum(tx.total_amount for tx in account.transactions if tx.type in types)
RECURSIVE G2_sum_total_amount(_, _)
G2_sum_total_amount(transactions, types) ==
    IF transactions = <<>> THEN 0
    ELSE (IF Head(transactions).type \in types THEN Head(transactions).total_amount ELSE 0)
         + G2_sum_total_amount(Tail(transactions), types)

\* The loop over the holdings of positive quantity: quantity x price, added up.
RECURSIVE G2_share_value(_, _)
G2_share_value(holdings, symbols) ==
    IF symbols = {} THEN 0
    ELSE LET symbol == CHOOSE s \in symbols : TRUE
         IN  (IF holdings[symbol].quantity > 0
              THEN holdings[symbol].quantity * G2_get_share_price(symbol) ELSE 0)
             + G2_share_value(holdings, symbols \ {symbol})

\* A profit/loss taken against the deposits alone.
G2_get_performance_metrics_deposits_only(account) ==
    LET total_value == account.cash_balance
                       + G2_share_value(account.holdings, DOMAIN account.holdings)
    IN  [total_value |-> total_value,
         profit_loss |-> total_value - G2_sum_total_amount(account.transactions, {"DEPOSIT"})]

\* TradingEngine.get_performance_metrics (gemini-3-preview-second-run), on the
\* account found.
G2_get_performance_metrics(account) ==
    LET share_value == G2_share_value(account.holdings, DOMAIN account.holdings)
        total_value == account.cash_balance + share_value
        net_invested == G2_sum_total_amount(account.transactions, {"DEPOSIT", "WITHDRAWAL"})
    IN  [total_value |-> total_value, profit_loss |-> total_value - net_invested]

\* app.py get_portfolio_stats_md (gemini-3-preview-third-run): the price of every held
\* symbol that get_share_price knows.
G3_current_prices(account) ==
    [s \in {h \in DOMAIN account.holdings :
               G3_get_share_price(account.holdings[h].symbol).raised = NoExc} |->
        G3_get_share_price(account.holdings[s].symbol).price]

\* The loop of get_portfolio_summary: quantity x price, the average cost standing in
\* for a price that is not given.
RECURSIVE G3_holdings_value(_, _, _)
G3_holdings_value(holdings, symbols, current_prices) ==
    IF symbols = {} THEN 0
    ELSE LET k == CHOOSE s \in symbols : TRUE
             price == IF holdings[k].symbol \in DOMAIN current_prices
                      THEN current_prices[holdings[k].symbol]
                      ELSE holdings[k].average_cost
         IN  holdings[k].quantity * price
             + G3_holdings_value(holdings, symbols \ {k}, current_prices)

\* TradingAccount.get_portfolio_summary (gemini-3-preview-third-run)
G3_get_portfolio_summary(account, current_prices) ==
    LET holdings_value == G3_holdings_value(account.holdings, DOMAIN account.holdings,
                                            current_prices)
        total_portfolio_value == account.cash + holdings_value
    IN  [total_cash |-> account.cash,
         total_invested |-> account.net_capital_invested,
         total_portfolio_value |-> total_portfolio_value,
         total_profit_loss |-> total_portfolio_value - account.net_capital_invested,
         initial_deposit |-> account.initial_deposit]

Step_G2_get_performance_metrics ==
    /\ variant = "G2"
    /\ \E username \in UserKeyInputs :
        Do("profit_loss",
           IF username \notin DOMAIN accounts THEN G2_Raise(accounts, "AccountNotFoundError")
           ELSE G2_Return(accounts), clock)

Step_G3_get_portfolio_summary ==
    /\ variant = "G3"
    /\ Self \in DOMAIN accounts
    /\ Do("profit_loss", G3_ok(accounts), clock)

\* sorted(account.transactions, key=lambda item: item.timestamp): a stable sort, so
\* records of one instant keep their order in the log.
RECURSIVE InsertByTimestamp(_, _)
InsertByTimestamp(sorted, tx) ==
    IF sorted = <<>> THEN <<tx>>
    ELSE IF Head(sorted).timestamp <= tx.timestamp
    THEN <<Head(sorted)>> \o InsertByTimestamp(Tail(sorted), tx)
    ELSE <<tx>> \o sorted

RECURSIVE SortedByTimestamp(_)
SortedByTimestamp(transactions) ==
    IF transactions = <<>> THEN <<>>
    ELSE InsertByTimestamp(SortedByTimestamp(SubSeq(transactions, 1, Len(transactions) - 1)),
                           transactions[Len(transactions)])

\* The loop of snapshot over the sorted transactions, stopping at the first one later
\* than the requested timestamp: the cash, holdings and deposits replayed so far.
RECURSIVE AMB_snapshot_replay(_, _, _)
AMB_snapshot_replay(transactions, timestamp, st) ==
    IF transactions = <<>> THEN st
    ELSE LET tx == Head(transactions)
             held == HoldingsGet(st.holdings, tx.symbol)
         IN  IF tx.timestamp > timestamp THEN st
             ELSE AMB_snapshot_replay(Tail(transactions), timestamp,
                    CASE tx.type = "DEPOSIT" ->
                           [st EXCEPT !.cash = @ + tx.amount,
                                      !.deposits_baseline = @ + tx.amount,
                                      !.transactions_applied = @ + 1]
                      [] tx.type = "WITHDRAWAL" ->
                           [st EXCEPT !.cash = @ - tx.amount, !.transactions_applied = @ + 1]
                      [] tx.type = "BUY" /\ tx.symbol # NULL ->
                           [st EXCEPT !.cash = @ - tx.amount,
                                      !.holdings = HoldingsSet(@, tx.symbol, held + tx.quantity),
                                      !.transactions_applied = @ + 1]
                      [] tx.type = "SELL" /\ tx.symbol # NULL ->
                           [st EXCEPT !.cash = @ + tx.amount,
                                      !.holdings = IF held - tx.quantity <= 0
                                                   THEN HoldingsDel(@, tx.symbol)
                                                   ELSE HoldingsSet(@, tx.symbol,
                                                                    held - tx.quantity),
                                      !.transactions_applied = @ + 1]
                      [] OTHER -> [st EXCEPT !.transactions_applied = @ + 1])

\* The data of the envelope of snapshot, with the holdings its table lists.
AMB_snapshot_data(account, timestamp) ==
    LET st == AMB_snapshot_replay(SortedByTimestamp(account.transactions), timestamp,
                                  [cash |-> 0, holdings |-> <<>>, deposits_baseline |-> 0,
                                   transactions_applied |-> 0])
        total_holdings_value == AMB_holdings_value(st.holdings, DOMAIN st.holdings)
    IN  [cash_balance |-> Round2(st.cash),
         holdings |-> st.holdings,
         total_portfolio_value |-> Round2(st.cash + total_holdings_value),
         baseline |-> Round2(st.deposits_baseline),
         transactions_applied |-> st.transactions_applied]

\* SnapshotService.snapshot at the instant now.
AMB_snapshot(accts, account_id, timestamp, now) ==
    LET got == Repo_get(accts, account_id)
    IN  IF got.raised # NoExc
        THEN Out(accts, build_response(FALSE, got.raised.message, NULL, got.raised.code))
        ELSE IF timestamp < got.account.created_at \/ timestamp > now
        THEN Out(accts, build_response(FALSE, "SNAPSHOT_RANGE_MESSAGE", NULL, "SNAPSHOT_RANGE"))
        ELSE LET data == AMB_snapshot_data(got.account, timestamp)
             IN  IF data.baseline = 0 /\ data.transactions_applied = 0
                 THEN Out(accts, build_response(TRUE, "NO_ACTIVITY_MESSAGE", "snapshot", NULL))
                 ELSE Out(accts, build_response(TRUE, "SUCCESS_SNAPSHOT", "snapshot", NULL))

\* sorted(account.transactions, key=lambda tx: tx.timestamp, reverse=True): the sort
\* is stable, also in reverse, so records of one instant keep their order in the log.
RECURSIVE InsertByTimestampReverse(_, _)
InsertByTimestampReverse(sorted, tx) ==
    IF sorted = <<>> THEN <<tx>>
    ELSE IF Head(sorted).timestamp >= tx.timestamp
    THEN <<Head(sorted)>> \o InsertByTimestampReverse(Tail(sorted), tx)
    ELSE <<tx>> \o sorted

\* AccountRepository.list_transactions
RECURSIVE Repo_list_transactions(_)
Repo_list_transactions(transactions) ==
    IF transactions = <<>> THEN <<>>
    ELSE InsertByTimestampReverse(
             Repo_list_transactions(SubSeq(transactions, 1, Len(transactions) - 1)),
             transactions[Len(transactions)])

\* list(reversed(account.transactions)) in gemini-3-preview's get_transaction_history;
\* `for tx in reversed(self.transactions)` in the crew modules' get_transactions_df.
reversed(transactions) ==
    [i \in 1..Len(transactions) |-> transactions[Len(transactions) + 1 - i]]

Variants == {"AMB", "G1", "G2", "G3", "CG1", "CG2"}

\* The crew modules' account object exists from construction; the others start empty.
Init ==
    /\ variant \in Variants
    /\ accounts = IF variant \in {"CG1", "CG2"} THEN [k \in {Self} |-> CG_new_account]
                  ELSE <<>>
    /\ clock = 0
    /\ call = "none"
    /\ resp = build_response(TRUE, "", NULL, NULL)
    /\ applied = 0
    /\ lock = NoThread
    /\ threads = <<>>
    /\ hist = <<>>
    /\ heap = <<>>
    /\ habits = <<>>
    /\ today = 0
    /\ data_file = <<>>

Next ==
    \/ Step_AMB_create_account
    \/ Step_AMB_deposit
    \/ Step_AMB_withdraw
    \/ Step_AMB_buy
    \/ Step_AMB_sell
    \/ Step_AMB_mutate_raising
    \/ Step_AMB_portfolio
    \/ Step_AMB_profit_loss
    \/ Step_AMB_transactions
    \/ Step_G1_create_account
    \/ Step_G1_deposit
    \/ Step_G1_withdraw
    \/ Step_G1_buy_shares
    \/ Step_G1_sell_shares
    \/ Step_G1_get_portfolio
    \/ Step_G1_get_transaction_history
    \/ Step_G2_create_account
    \/ Step_G2_deposit
    \/ Step_G2_withdraw
    \/ Step_G2_buy_shares
    \/ Step_G2_sell_shares
    \/ Step_G2_get_performance_metrics
    \/ Step_G3_create_account_service
    \/ Step_G3_deposit_service
    \/ Step_G3_withdraw_service
    \/ Step_G3_buy_stock_service
    \/ Step_G3_sell_stock_service
    \/ Step_G3_get_portfolio_summary
    \/ Step_CG_initialize
    \/ Step_CG_deposit
    \/ Step_CG_withdraw
    \/ Step_CG1_buy_shares
    \/ Step_CG1_sell_shares
    \/ Step_CG2_buy_shares
    \/ Step_CG2_sell_shares

Spec == Init /\ [][Next]_vars

(***************************************************************************)
(* Concurrent callers of the account_management_backend.py services.  A    *)
(* thread can be pre-empted between any two reads or writes of the account *)
(* object, so AccountRepository.mutate and the mutators are taken apart    *)
(* into their reads and writes; only the lock orders them.                 *)
(***************************************************************************)
Threads == {"t1", "t2"}

\* Calls each thread may make before it stops.
MaxCalls == 1

\* The calls the threads choose from.
ConcCalls ==
    {[op |-> "deposit", account_id |-> "uuid1", amount |-> 150000, symbol |-> NULL, quantity |-> 0],
     [op |-> "deposit", account_id |-> "uuid1", amount |-> 0, symbol |-> NULL, quantity |-> 0],
     [op |-> "withdraw", account_id |-> "uuid1", amount |-> 150000, symbol |-> NULL, quantity |-> 0],
     [op |-> "withdraw", account_id |-> "uuid1", amount |-> 300000, symbol |-> NULL, quantity |-> 0],
     [op |-> "withdraw", account_id |-> UnknownId, amount |-> 150000, symbol |-> NULL, quantity |-> 0],
     [op |-> "buy", account_id |-> "uuid1", amount |-> 0, symbol |-> "AAPL", quantity |-> 1],
     [op |-> "sell", account_id |-> "uuid1", amount |-> 0, symbol |-> "AAPL", quantity |-> 1],
     [op |-> "sell", account_id |-> "uuid1", amount |-> 0, symbol |-> "TSLA", quantity |-> 1]}

\* The same call made with nothing else running.
SeqCall(accts, c, now) ==
    CASE c.op = "deposit" -> AMB_deposit(accts, c.account_id, c.amount, now)
      [] c.op = "withdraw" -> AMB_withdraw(accts, c.account_id, c.amount, now)
      [] c.op = "buy" -> AMB_buy(accts, c.account_id, c.symbol, c.quantity, now)
      [] c.op = "sell" -> AMB_sell(accts, c.account_id, c.symbol, c.quantity, now)

\* The repository the threads start on: one account holding $150 and one AAPL share.
ConcStart ==
    LET a1 == AMB_create_account(<<>>, "bob", 0).accounts
        a2 == AMB_deposit(a1, "uuid1", 300000, 0).accounts
    IN  AMB_buy(a2, "uuid1", "AAPL", 1, 0).accounts

\* What a service does before it calls mutate: request validation and, for a trade,
\* the price lookup.  TRUE when the call returns a failure without reaching mutate.
RejectedBeforeMutate(c) ==
    IF c.op \in {"deposit", "withdraw"} THEN ~(c.amount > 0)
    ELSE \/ Upper(c.symbol) = ""
         \/ ~(c.quantity > 0)
         \/ get_share_price(Upper(c.symbol)).raised # NoExc

\* The mutator the service hands to mutate.
MutatorOf(c) ==
    CASE c.op = "deposit" -> [kind |-> "deposit", symbol |-> NULL, quantity |-> 0, price |-> 0,
                              total |-> c.amount, tx_type |-> "DEPOSIT"]
      [] c.op = "withdraw" -> [kind |-> "withdrawal", symbol |-> NULL, quantity |-> 0,
                               price |-> 0, total |-> c.amount, tx_type |-> "WITHDRAWAL"]
      [] c.op = "buy" -> [kind |-> "buy", symbol |-> Upper(c.symbol), quantity |-> c.quantity,
                          price |-> get_share_price(Upper(c.symbol)).price,
                          total |-> get_share_price(Upper(c.symbol)).price * c.quantity,
                          tx_type |-> "BUY"]
      [] c.op = "sell" -> [kind |-> "sell", symbol |-> Upper(c.symbol), quantity |-> c.quantity,
                           price |-> get_share_price(Upper(c.symbol)).price,
                           total |-> get_share_price(Upper(c.symbol)).price * c.quantity,
                           tx_type |-> "SELL"]

\* A local variable of a thread that holds no request, mutator, copy or record yet.
Unset == [unset |-> TRUE]

IdleThread ==
    [pc |-> "idle", calls |-> 0, req |-> Unset, m |-> Unset, snapshot |-> Unset,
     cash |-> 0, held |-> 0, raised |-> NoExc, idx |-> 0, tx |-> Unset]

\* A repository whose mutate takes no lock.
LockFree_unguarded(t) == TRUE

\* `with self._lock` can be entered.
LockFree(t) == lock = NoThread

Goto(t, pc) == threads' = [threads EXCEPT ![t].pc = pc]

\* A thread calls a service; a call refused before mutate ends here.
Conc_call(t) ==
    /\ threads[t].pc = "idle"
    /\ threads[t].calls < MaxCalls
    /\ \E c \in ConcCalls :
        threads' = [threads EXCEPT ![t] =
            IF RejectedBeforeMutate(c)
            THEN [@ EXCEPT !.calls = @ + 1]
            ELSE [@ EXCEPT !.pc = "acquire", !.req = c, !.m = MutatorOf(c),
                           !.raised = NoExc]]
    /\ UNCHANGED <<variant, habits, today, data_file, heap, accounts, clock, call, resp, applied, lock, hist>>

\* mutate: take the lock, look the account up, keep a deep copy of it.
Conc_acquire(t) ==
    /\ threads[t].pc = "acquire"
    /\ LockFree(t)
    /\ lock' = t
    /\ hist' = Append(hist, [thread |-> t, call |-> threads[t].req, code |-> "pending"])
    /\ threads' = [threads EXCEPT ![t] =
          IF threads[t].req.account_id \notin DOMAIN accounts
          THEN [@ EXCEPT !.pc = "release", !.idx = Len(hist) + 1,
                         !.raised = Exc("NOT_FOUND", "ACCOUNT_NOT_FOUND_MESSAGE")]
          ELSE [@ EXCEPT !.pc = "mutator", !.idx = Len(hist) + 1,
                         !.snapshot = accounts[threads[t].req.account_id]]]
    /\ UNCHANGED <<variant, habits, today, data_file, heap, accounts, clock, call, resp, applied>>

\* The mutator's checks: _apply_withdrawal / _apply_buy read the cash balance,
\* _apply_sell reads the held quantity; _apply_deposit checks nothing.
Conc_mutator(t) ==
    LET th == threads[t]
        account == accounts[th.req.account_id]
        held == HoldingsGet(account.holdings, th.m.symbol)
    IN  /\ th.pc = "mutator"
        /\ threads' = [threads EXCEPT ![t] =
              CASE th.m.kind = "deposit" -> [@ EXCEPT !.pc = "read_cash"]
                [] th.m.kind \in {"withdrawal", "buy"} ->
                      IF account.cash_balance < th.m.total
                      THEN [@ EXCEPT !.pc = "rollback",
                                     !.raised = Exc("INSUFFICIENT_FUNDS", "")]
                      ELSE [@ EXCEPT !.pc = "read_cash"]
                [] th.m.kind = "sell" ->
                      IF held = 0 \/ held < th.m.quantity
                      THEN [@ EXCEPT !.pc = "rollback",
                                     !.raised = Exc("INSUFFICIENT_SHARES", "")]
                      ELSE [@ EXCEPT !.pc = "write_holdings", !.held = held]]
        /\ UNCHANGED <<variant, habits, today, data_file, heap, accounts, clock, call, resp, applied, lock, hist>>

\* account.cash_balance = round(account.cash_balance +/- total, 2): the read ...
Conc_read_cash(t) ==
    /\ threads[t].pc = "read_cash"
    /\ threads' = [threads EXCEPT ![t].pc = "write_cash",
                                  ![t].cash = accounts[threads[t].req.account_id].cash_balance]
    /\ UNCHANGED <<variant, habits, today, data_file, heap, accounts, clock, call, resp, applied, lock, hist>>

\* ... and the write.
Conc_write_cash(t) ==
    LET th == threads[t]
        signed == IF th.m.kind \in {"deposit", "sell"} THEN th.m.total ELSE -th.m.total
    IN  /\ th.pc = "write_cash"
        /\ accounts' = [accounts EXCEPT ![th.req.account_id].cash_balance =
                            Round2(th.cash + signed)]
        /\ Goto(t, IF th.m.kind = "buy" THEN "write_holdings" ELSE "create_tx")
        /\ UNCHANGED <<variant, habits, today, data_file, heap, clock, call, resp, applied, lock, hist>>

\* _apply_buy adds to the holding; _apply_sell stores what its check left over.
Conc_write_holdings(t) ==
    LET th == threads[t]
        remaining == th.held - th.m.quantity
    IN  /\ th.pc = "write_holdings"
        /\ accounts' = [accounts EXCEPT ![th.req.account_id].holdings =
              IF th.m.kind = "buy"
              THEN HoldingsSet(@, th.m.symbol, HoldingsGet(@, th.m.symbol) + th.m.quantity)
              ELSE IF remaining = 0 THEN HoldingsDel(@, th.m.symbol)
              ELSE HoldingsSet(@, th.m.symbol, remaining)]
        /\ Goto(t, IF th.m.kind = "buy" THEN "create_tx" ELSE "read_cash")
        /\ UNCHANGED <<variant, habits, today, data_file, heap, clock, call, resp, applied, lock, hist>>

\* tx = _create_transaction(account, ...): the clock is read and the record built ...
Conc_create_tx(t) ==
    LET th == threads[t]
        account == accounts[th.req.account_id]
        tx == _create_transaction(account, th.m.tx_type, th.m.total,
                                  th.m.symbol, th.m.quantity, th.m.price, clock)
    IN  /\ th.pc = "create_tx"
        /\ threads' = [threads EXCEPT ![t].pc = "append_tx", ![t].tx = tx]
        /\ UNCHANGED <<variant, habits, today, data_file, heap, accounts, clock, call, resp, applied, lock, hist>>

\* ... account.transactions.append(tx)
Conc_append_tx(t) ==
    LET th == threads[t]
    IN  /\ th.pc = "append_tx"
        /\ accounts' = [accounts EXCEPT ![th.req.account_id].transactions = Append(@, th.tx)]
        /\ Goto(t, "release")
        /\ UNCHANGED <<variant, habits, today, data_file, heap, clock, call, resp, applied, lock, hist>>

\* A mutate that takes the lock with acquire() and returns from its except clauses
\* without releasing it.
Conc_rollback_keeping_lock(t) ==
    /\ threads[t].pc = "rollback"
    /\ accounts' = [accounts EXCEPT ![threads[t].req.account_id] = threads[t].snapshot]
    /\ threads' = [threads EXCEPT ![t].pc = "idle", ![t].calls = @ + 1]
    /\ UNCHANGED <<variant, habits, today, data_file, heap, clock, call, resp, applied, lock, hist>>

\* mutate's except clauses: self._accounts[account_id] = snapshot
Conc_rollback(t) ==
    /\ threads[t].pc = "rollback"
    /\ accounts' = [accounts EXCEPT ![threads[t].req.account_id] = threads[t].snapshot]
    /\ Goto(t, "release")
    /\ UNCHANGED <<variant, habits, today, data_file, heap, clock, call, resp, applied, lock, hist>>

\* Leaving `with self._lock`; the service builds its envelope from what mutate
\* returned or raised.
Conc_release(t) ==
    LET th == threads[t]
    IN  /\ th.pc = "release"
        /\ lock' = NoThread
        /\ hist' = [hist EXCEPT ![th.idx].code =
                        IF th.raised = NoExc THEN "OK" ELSE th.raised.code]
        /\ threads' = [threads EXCEPT ![t].pc = "idle", ![t].calls = @ + 1]
        /\ UNCHANGED <<variant, habits, today, data_file, heap, accounts, clock, call, resp, applied>>

InitConc ==
    /\ variant = "AMB"
    /\ accounts = ConcStart
    /\ clock = 0
    /\ call = "none"
    /\ resp = build_response(TRUE, "", NULL, NULL)
    /\ applied = 0
    /\ lock = NoThread
    /\ threads = [t \in Threads |-> IdleThread]
    /\ hist = <<>>
    /\ heap = <<>>
    /\ habits = <<>>
    /\ today = 0
    /\ data_file = <<>>

NextConc ==
    \/ \E t \in Threads : Conc_call(t)
    \/ \E t \in Threads : Conc_acquire(t)
    \/ \E t \in Threads : Conc_mutator(t)
    \/ \E t \in Threads : Conc_read_cash(t)
    \/ \E t \in Threads : Conc_write_cash(t)
    \/ \E t \in Threads : Conc_write_holdings(t)
    \/ \E t \in Threads : Conc_create_tx(t)
    \/ \E t \in Threads : Conc_append_tx(t)
    \/ \E t \in Threads : Conc_rollback(t)
    \/ \E t \in Threads : Conc_release(t)

SpecConc == InitConc /\ [][NextConc]_vars

\* The repository after the first n calls of hist, made one after the other.
RECURSIVE ReplayAccounts(_)
ReplayAccounts(n) ==
    IF n = 0 THEN ConcStart
    ELSE SeqCall(ReplayAccounts(n - 1), hist[n].call, clock).accounts

\* The outcome of the n-th call of hist when the calls are made one after the other.
ReplayCode(n) ==
    LET r == SeqCall(ReplayAccounts(n - 1), hist[n].call, clock).resp
    IN  IF r.success THEN "OK" ELSE r.error_code

\* No thread is inside mutate.
Quiescent == \A t \in Threads : threads[t].pc \in {"idle", "acquire"}

\* C3: concurrent mutations are serialized by the repository lock.  Whenever no
\* thread is inside mutate, the stored accounts (cash, holdings, transaction log)
\* are those left by making the calls one at a time in the order they took the
\* lock, every call got the outcome it gets in that order, so no update is lost
\* and the cash balance never goes below zero.
C3_Serialized ==
    Quiescent =>
        /\ accounts = ReplayAccounts(Len(hist))
        /\ \A i \in 1..Len(hist) : hist[i].code = ReplayCode(i)
        /\ \A id \in DOMAIN accounts : accounts[id].cash_balance >= 0

\* Two withdrawals of $150 raced for a balance of $150: one succeeded, the other
\* was refused for insufficient funds.
C3_Witness ==
    /\ Quiescent
    /\ Len(hist) = 2
    /\ hist[1].thread # hist[2].thread
    /\ hist[1].call.op = "withdraw" /\ hist[2].call.op = "withdraw"
    /\ hist[1].call.amount = 150000 /\ hist[2].call.amount = 150000
    /\ hist[1].code = "OK" /\ hist[2].code = "INSUFFICIENT_FUNDS"
    /\ accounts["uuid1"].cash_balance = 0

(***************************************************************************)
(* The ledger operations of whichever implementation is running, applied   *)
(* to the current state, and readers of its account records.               *)
(***************************************************************************)
\* The account keys a caller can pass: the stored ones and one that is not stored.
KeyInputs ==
    CASE variant = "AMB" -> AccountIdInputs
      [] variant \in {"G1", "G2"} -> UserKeyInputs
      [] OTHER -> {Self}

DepositOut(id, amount) ==
    CASE variant = "AMB" -> AMB_deposit(accounts, id, amount, clock)
      [] variant = "G1" -> G1_deposit(accounts, id, amount)
      [] variant = "G2" -> G2_deposit(accounts, id, amount)
      [] variant = "G3" -> G3_deposit_service(accounts, amount)
      [] OTHER -> CG_deposit(accounts, amount)

WithdrawOut(id, amount) ==
    CASE variant = "AMB" -> AMB_withdraw(accounts, id, amount, clock)
      [] variant = "G1" -> G1_withdraw(accounts, id, amount)
      [] variant = "G2" -> G2_withdraw(accounts, id, amount)
      [] variant = "G3" -> G3_withdraw_service(accounts, amount)
      [] OTHER -> CG_withdraw(accounts, amount)

BuyOut(id, symbol, quantity) ==
    CASE variant = "AMB" -> AMB_buy(accounts, id, symbol, quantity, clock)
      [] variant = "G1" -> G1_buy_shares(accounts, id, symbol, quantity)
      [] variant = "G2" -> G2_buy_shares(accounts, id, symbol, quantity)
      [] variant = "G3" -> G3_buy_stock_service(accounts, symbol, quantity)
      [] variant = "CG1" -> CG1_buy_shares(accounts, symbol, quantity)
      [] OTHER -> CG2_buy_shares(accounts, symbol, quantity)

SellOut(id, symbol, quantity) ==
    CASE variant = "AMB" -> AMB_sell(accounts, id, symbol, quantity, clock)
      [] variant = "G1" -> G1_sell_shares(accounts, id, symbol, quantity)
      [] variant = "G2" -> G2_sell_shares(accounts, id, symbol, quantity)
      [] variant = "G3" -> G3_sell_stock_service(accounts, symbol, quantity)
      [] variant = "CG1" -> CG1_sell_shares(accounts, symbol, quantity)
      [] OTHER -> CG2_sell_shares(accounts, symbol, quantity)

\* Every deposit, withdraw, buy and sell call that can be made now, with its outcome.
LedgerCalls ==
    {[op |-> "deposit", out |-> DepositOut(id, a)] : id \in KeyInputs, a \in AmountInputs}
    \cup {[op |-> "withdraw", out |-> WithdrawOut(id, a)] : id \in KeyInputs, a \in AmountInputs}
    \cup {[op |-> "buy", out |-> BuyOut(id, s, q)] :
              id \in KeyInputs, s \in SymbolInputs, q \in QuantityInputs}
    \cup {[op |-> "sell", out |-> SellOut(id, s, q)] :
              id \in KeyInputs, s \in SymbolInputs, q \in QuantityInputs}

\* mutate called with a mutator that raises part-way (account_management_backend only).
RaisingCalls ==
    IF variant = "AMB"
    THEN {[op |-> "mutate", out |-> AMB_mutate_raising(accounts, id, exc, clock)] :
              id \in KeyInputs, exc \in RaisableInputs}
    ELSE {}

\* The cash balance of an account record.
CashOf(account) == IF "cash" \in DOMAIN account THEN account.cash ELSE account.cash_balance

\* The quantity an account record holds under key symbol, 0 if there is no entry.
QtyOf(account, symbol) ==
    IF symbol \notin DOMAIN account.holdings THEN 0
    ELSE IF variant \in {"G1", "G2", "G3"} THEN account.holdings[symbol].quantity
    ELSE account.holdings[symbol]

\* The transaction type each implementation records for an operation.
TxTypeOf(op) ==
    CASE op = "deposit" -> "DEPOSIT"
      [] op = "withdraw" -> IF variant \in {"CG1", "CG2"} THEN "WITHDRAW" ELSE "WITHDRAWAL"
      [] op = "buy" -> "BUY"
      [] op = "sell" -> "SELL"

\* What tells a caller which failure a response reports: the error code, or for the
\* crew modules (whose responses carry none) the message.
ErrorOf(r) == IF variant \in {"CG1", "CG2"} THEN r.message ELSE r.error_code

InsufficientFundsErrors == {"INSUFFICIENT_FUNDS", "InsufficientFundsError"}
InsufficientSharesErrors == {"INSUFFICIENT_SHARES", "InsufficientHoldingsError"}
ValidationErrors == {"VALIDATION_ERROR", "ValidationError", "InvalidAmountError"}
SymbolErrors == {"PRICE_RETRIEVAL", "INVALID_SYMBOL", "InvalidSymbolError"}

C2_Atomic ==
    \A c \in LedgerCalls \cup RaisingCalls :
        ~c.out.resp.success => c.out.accounts = accounts

\* A mutator that had already changed the account raised inside mutate, and the
\* account still has its cash, its holding and its log.
C2_Witness ==
    /\ variant = "AMB"
    /\ call = "mutate" /\ ~resp.success /\ resp.error_code = "SERVER_ERROR"
    /\ \E id \in DOMAIN accounts :
        /\ accounts[id].cash_balance = 150000
        /\ QtyOf(accounts[id], "AAPL") = 1
        /\ Len(accounts[id].transactions) = 2

\* C4: every successful deposit, withdraw, buy or sell appends exactly one
\* transaction, of the matching type, to the account's log, and every rejected call
\* appends none; so the log length equals the number of successful mutations (the
\* crew modules' initialize, which also records a transaction, counted with them).
C4_OneTransactionPerSuccess ==
    /\ \A c \in LedgerCalls : \A id \in DOMAIN accounts :
          LET before == accounts[id].transactions
              after == c.out.accounts[id].transactions
          IN  IF c.out.resp.success
              THEN \E k \in DOMAIN c.out.accounts :
                      LET log == c.out.accounts[k].transactions
                      IN  /\ Len(log) = Len(accounts[k].transactions) + 1
                          /\ SubSeq(log, 1, Len(log) - 1) = accounts[k].transactions
                          /\ log[Len(log)].type = TxTypeOf(c.op)
                          /\ \A j \in DOMAIN accounts \ {k} :
                                c.out.accounts[j].transactions = accounts[j].transactions
              ELSE after = before
    /\ \A id \in DOMAIN accounts :
          Len(accounts[id].transactions) =
              applied + (IF variant \in {"CG1", "CG2"} /\ accounts[id].initialized
                         THEN 1 ELSE 0)

\* Three operations succeeded, the last a sell, and the log holds three transactions
\* ending with a SELL.
C4_Witness ==
    /\ variant = "AMB"
    /\ call = "sell" /\ resp.success
    /\ applied = 3
    /\ \E id \in DOMAIN accounts :
        /\ Len(accounts[id].transactions) = 3
        /\ accounts[id].transactions[3].type = "SELL"

\* The symbols the claims call supported.
SupportedSymbols == {"AAPL", "TSLA", "GOOGL"}

\* The symbol inputs that no implementation's price table holds in any spelling.
UnsupportedInputs == {s \in SymbolInputs : s # "" /\ Upper(s) \notin SupportedSymbols}

PositiveQuantities == {q \in QuantityInputs : q > 0}
PositiveAmounts == {a \in AmountInputs : a > 0}

\* Whether the running implementation's price lookup knows the symbol as passed:
\* gemini-3-preview-third-run looks it up as written, the others upper-case it.
LookupKnows(symbol) ==
    IF variant = "G3" THEN symbol \in SupportedSymbols ELSE Upper(symbol) \in SupportedSymbols

\* The price the running implementation uses for a symbol.
PriceOf(symbol) ==
    CASE variant = "AMB" -> get_share_price(symbol).price
      [] variant = "G1" -> G1_get_share_price(symbol)
      [] variant = "G2" -> G2_get_share_price(symbol)
      [] variant = "G3" -> G3_get_share_price(symbol).price
      [] OTHER -> CG_get_share_price(symbol).price

\* The holdings key the running implementation files a symbol under.
HoldingKey(symbol) == IF variant \in {"G1", "G3", "CG2"} THEN symbol ELSE Upper(symbol)

\* Every holdings key but key has the same quantity in both account records.
OthersUnchanged(old, new, key) ==
    \A k \in (DOMAIN old.holdings \cup DOMAIN new.holdings) \ {key} :
        QtyOf(new, k) = QtyOf(old, k)

\* The call was refused, with one of the errors, and changed nothing.
Refused(out, errors) ==
    /\ ~out.resp.success
    /\ ErrorOf(out.resp) \in errors
    /\ out.accounts = accounts

C7_Original ==
    variant \in {"AMB", "G3"} =>
        \A id \in DOMAIN accounts, amount \in PositiveAmounts :
            LET out == WithdrawOut(id, amount)
            IN  IF amount > CashOf(accounts[id])
                THEN Refused(out, InsufficientFundsErrors)
                ELSE /\ out.resp.success
                     /\ CashOf(out.accounts[id]) = CashOf(accounts[id]) - amount
                     /\ out.accounts[id].holdings = accounts[id].holdings

\* C8: buy(symbol, quantity > 0) of a supported symbol computes cost = price x
\* quantity and is rejected with insufficient-funds exactly when cost > cash;
\* otherwise cash decreases by exactly cost, the holding of that symbol increases by
\* exactly quantity (created at quantity if absent), and the holdings of every other
\* symbol are unchanged.
C8_BuyExact ==
    \A id \in DOMAIN accounts, s \in SymbolInputs, q \in PositiveQuantities :
        LookupKnows(s) =>
            LET out == BuyOut(id, s, q)
                cost == PriceOf(s) * q
                key == HoldingKey(s)
            IN  IF cost > CashOf(accounts[id])
                THEN Refused(out, InsufficientFundsErrors)
                ELSE /\ out.resp.success
                     /\ PriceOf(s) > 0
                     /\ CashOf(out.accounts[id]) = CashOf(accounts[id]) - cost
                     /\ QtyOf(out.accounts[id], key) = QtyOf(accounts[id], key) + q
                     /\ key \in DOMAIN out.accounts[id].holdings
                     /\ OthersUnchanged(accounts[id], out.accounts[id], key)

\* A second AAPL share was bought on top of the one held, leaving no cash.
C8_Witness ==
    /\ variant = "AMB"
    /\ call = "buy" /\ resp.success
    /\ \E id \in DOMAIN accounts :
        /\ QtyOf(accounts[id], "AAPL") = 2
        /\ accounts[id].cash_balance = 0

\* C9 as stated: sell(symbol, quantity > 0) is rejected with the insufficient-shares
\* error exactly when quantity exceeds the held quantity of that symbol (0 when the
\* symbol is not held), leaving cash and holdings unchanged; otherwise cash
\* increases by exactly price x quantity and the holding decreases by exactly
\* quantity, with all other holdings unchanged.
C9_SellRule(id, s, q) ==
    LET out == SellOut(id, s, q)
        key == HoldingKey(s)
        held == QtyOf(accounts[id], key)
    IN  IF q > held
        THEN Refused(out, InsufficientSharesErrors)
        ELSE /\ out.resp.success
             /\ CashOf(out.accounts[id]) = CashOf(accounts[id]) + PriceOf(s) * q
             /\ QtyOf(out.accounts[id], key) = held - q
             /\ OthersUnchanged(accounts[id], out.accounts[id], key)

C10_Original ==
    variant = "AMB" =>
        \A id \in DOMAIN accounts, amount \in AmountInputs :
            LET out == DepositOut(id, amount)
            IN  IF amount <= 0
                THEN Refused(out, ValidationErrors)
                ELSE /\ out.resp.success
                     /\ CashOf(out.accounts[id]) = CashOf(accounts[id]) + amount
                     /\ out.accounts[id].holdings = accounts[id].holdings

(***************************************************************************)
(* Account creation by concurrent callers, in the implementations that     *)
(* keep several accounts: account_management_backend (AccountService over  *)
(* AccountRepository, under the repository lock), gemini-3-preview and     *)
(* gemini-3-preview-second-run (TradingEngine, a dict keyed by username,   *)
(* no lock).                                                               *)
(***************************************************************************)
\* Largest number of create_account calls one caller makes.
MaxCreates == 2

\* Usernames passed to create_account: empty, blank, and spellings of two names.
CreateInputs == {"", " ", "bob", "Bob", " bob", "amy"}

UserVariants == {"AMB", "G1", "G2"}

\* A caller between two calls.
IdleCaller == [pc |-> "idle", username |-> NULL, calls |-> 0]

\* A fresh account of TradingEngine._accounts.
Engine_new_account(v, username) ==
    IF v = "G1"
    THEN [username |-> username, cash_balance |-> 0, holdings |-> <<>>,
          transactions |-> <<>>, initial_deposit |-> 0]
    ELSE [username |-> username, cash_balance |-> 0, holdings |-> <<>>,
          transactions |-> <<>>]

\* The envelope a create_account call returns, and the caller is idle again.
User_return(t, envelope) ==
    /\ threads' = [threads EXCEPT ![t] = [IdleCaller EXCEPT !.calls = threads[t].calls + 1]]
    /\ call' = "create_account"
    /\ resp' = envelope

\* create_account up to the repository: the empty-username validation.
User_call(t) ==
    /\ threads[t].pc = "idle"
    /\ threads[t].calls < MaxCreates
    /\ \E username \in CreateInputs :
        IF Strip(username) = ""
        THEN /\ User_return(t, CASE variant = "AMB" ->
                                      _validation_error(accounts, "USERNAME_REQUIRED_MESSAGE").resp
                                 [] variant = "G1" -> G1_error(accounts, "VALIDATION_ERROR").resp
                                 [] variant = "G2" -> G2_Raise(accounts, "ValidationError").resp)
             /\ UNCHANGED <<variant, habits, today, data_file, heap, accounts, clock, applied, lock, hist>>
        ELSE /\ threads' = [threads EXCEPT ![t].pc = IF variant = "AMB" THEN "lock" ELSE "check",
                                           ![t].username = IF variant = "G1" THEN username
                                                           ELSE Strip(username)]
             /\ UNCHANGED <<variant, habits, today, data_file, heap, accounts, clock, call, resp, applied, lock, hist>>

\* AccountRepository.create_account: with self._lock
User_acquire(t) ==
    /\ variant = "AMB"
    /\ threads[t].pc = "lock"
    /\ LockFree(t)
    /\ lock' = t
    /\ threads' = [threads EXCEPT ![t].pc = "check"]
    /\ UNCHANGED <<variant, habits, today, data_file, heap, accounts, clock, call, resp, applied, hist>>

\* The test for an existing account of that username, and the error it raises.
User_check(t) ==
    /\ threads[t].pc = "check"
    /\ LET username == threads[t].username
           taken == IF variant = "AMB"
                    THEN Repo_create_account(accounts, username, clock).raised # NoExc
                    ELSE username \in DOMAIN accounts
       IN  IF taken
           THEN /\ User_return(t, CASE variant = "AMB" ->
                                        AMB_create_account(accounts, username, clock).resp
                                    [] variant = "G1" -> G1_error(accounts, "DUPLICATE_USER").resp
                                    [] variant = "G2" -> G2_Raise(accounts, "ValidationError").resp)
                /\ lock' = NoThread
                /\ UNCHANGED <<variant, habits, today, data_file, heap, accounts, clock, applied, hist>>
           ELSE /\ threads' = [threads EXCEPT ![t].pc = "insert"]
                /\ UNCHANGED <<variant, habits, today, data_file, heap, accounts, clock, call, resp, applied, lock, hist>>

\* self._accounts[...] = account, and the success envelope.
User_insert(t) ==
    /\ threads[t].pc = "insert"
    /\ LET username == threads[t].username
       IN  IF variant = "AMB"
           THEN /\ Cardinality(DOMAIN accounts) < Len(AccountIds)
                /\ accounts' = Repo_create_account(accounts, username, clock).accounts
                /\ User_return(t, build_response(TRUE, "SUCCESS_ACCOUNT_CREATED", "account", NULL))
           ELSE /\ accounts' = [u \in DOMAIN accounts \cup {username} |->
                                   IF u = username THEN Engine_new_account(variant, username)
                                   ELSE accounts[u]]
                /\ User_return(t, IF variant = "G1" THEN G1_success(accounts, NULL).resp
                                  ELSE G2_Return(accounts).resp)
    /\ lock' = NoThread
    /\ UNCHANGED <<variant, habits, today, data_file, heap, clock, applied, hist>>

InitUsers ==
    /\ variant \in UserVariants
    /\ accounts = <<>>
    /\ clock = 0
    /\ call = NULL
    /\ resp = build_response(TRUE, "", NULL, NULL)
    /\ applied = 0
    /\ lock = NoThread
    /\ threads = [t \in Threads |-> IdleCaller]
    /\ hist = <<>>
    /\ heap = <<>>
    /\ habits = <<>>
    /\ today = 0
    /\ data_file = <<>>

NextUsers ==
    \E t \in Threads :
        \/ User_call(t)
        \/ User_acquire(t)
        \/ User_check(t)
        \/ User_insert(t)

SpecUsers == InitUsers /\ [][NextUsers]_vars

\* The username with its surrounding blanks and its case taken away.
CanonicalUsername(u) ==
    CASE u \in {"bob", "Bob", " bob", " Bob"} -> "bob"
      [] u \in {"amy"} -> "amy"
      [] u \in {"", " "} -> ""
      [] OTHER -> u

\* No two accounts of the repository have usernames that norm makes equal.
UniqueUnder(norm(_)) ==
    \A a, b \in DOMAIN accounts :
        a # b => norm(accounts[a].username) # norm(accounts[b].username)

\* create_account of each implementation, called on the repository as it is.
CreateOut(username) ==
    CASE variant = "AMB" -> AMB_create_account(accounts, username, clock)
      [] variant = "G1" -> G1_create_account(accounts, username)
      [] variant = "G2" -> G2_create_account(accounts, username)

\* Some account has a username that norm makes equal to username.
TakenUnder(norm(_), username) ==
    \E a \in DOMAIN accounts : norm(accounts[a].username) = norm(username)

\* The codes under which a repeated username is reported.
DuplicateUsernameErrors == {"DUPLICATE_USERNAME", "DUPLICATE_USER"}

\* C11 as stated, for the two implementations it cites: create_account with a
\* username equal, after trimming and ignoring case, to that of an existing account
\* is rejected with DUPLICATE_USERNAME and adds no account, and no state, reached by
\* concurrent callers included, holds two accounts with such usernames.
C11_Original ==
    variant \in {"AMB", "G1"} =>
        /\ UniqueUnder(CanonicalUsername)
        /\ \A username \in CreateInputs :
              CanonicalUsername(username) # "" /\ TakenUnder(CanonicalUsername, username)
                  => Refused(CreateOut(username), DuplicateUsernameErrors)

\* C11 amended: in account_management_backend usernames are unique after trimming
\* and ignoring case, and a create_account that repeats one is rejected with
\* DUPLICATE_USERNAME and adds no account, also with concurrent callers; in
\* gemini-3-preview usernames are compared as given (no trimming, case kept) and a
\* repeated one is rejected with DUPLICATE_USER; in gemini-3-preview-second-run
\* they are compared after trimming with the case kept and a repeated one is
\* rejected with ValidationError.  In each, no two accounts have usernames equal
\* under the implementation's own comparison.
C11_UniqueUsernames ==
    LET AsGiven(u) == u
        RepeatRefused(norm(_), code) ==
            \A username \in CreateInputs :
                Strip(username) # "" /\ TakenUnder(norm, username)
                    => Refused(CreateOut(username), {code})
    IN  /\ variant = "AMB" => /\ UniqueUnder(CanonicalUsername)
                              /\ RepeatRefused(CanonicalUsername, "DUPLICATE_USERNAME")
        /\ variant = "G1" => /\ UniqueUnder(AsGiven)
                             /\ \A u \in DOMAIN accounts : accounts[u].username = u
                             /\ RepeatRefused(AsGiven, "DUPLICATE_USER")
        /\ variant = "G2" => /\ UniqueUnder(Strip)
                             /\ \A u \in DOMAIN accounts : accounts[u].username = u
                             /\ RepeatRefused(Strip, "ValidationError")

\* Two accounts exist and a caller that repeated a username in another spelling has
\* just been refused, while the other caller is inside a call.
C11_Witness ==
    /\ variant = "AMB"
    /\ Cardinality(DOMAIN accounts) = 2
    /\ call = "create_account" /\ ~resp.success /\ resp.error_code = "DUPLICATE_USERNAME"
    /\ \E t \in Threads : threads[t].pc # "idle"

\* The calls of the read operations of account_management_backend that can be made
\* now, with their outcomes.
AMB_ReadCalls ==
    {[op |-> "portfolio", out |-> AMB_compute_portfolio(accounts, id)] : id \in AccountIdInputs}
    \cup {[op |-> "transactions", out |-> AMB_list_transactions(accounts, id, ty, s)] :
              id \in AccountIdInputs, ty \in TxTypeInputs, s \in TxSymbolInputs}

\* The create_account calls of account_management_backend that can be made now.
AMB_CreateCalls ==
    IF Cardinality(DOMAIN accounts) < Len(AccountIds)
    THEN {[op |-> "create_account", out |-> AMB_create_account(accounts, u, clock)] :
              u \in UsernameInputs}
    ELSE {}

\* The uniform envelope: its four fields, success false exactly when error_code is
\* set, and no data with a failure.
UniformEnvelope(r) ==
    /\ DOMAIN r = {"success", "message", "data", "error_code"}
    /\ r.success \in BOOLEAN
    /\ r.success <=> r.error_code = NULL
    /\ ~r.success => r.data = NULL

UnknownKeys == KeyInputs \ DOMAIN accounts

\* The codes under which an unknown account is reported.
NotFoundErrors == {"NOT_FOUND", "USER_NOT_FOUND"}

\* portfolio and history of the implementations C13 cites.
PortfolioOut(id) ==
    IF variant = "AMB" THEN AMB_compute_portfolio(accounts, id)
    ELSE G1_get_portfolio(accounts, id)
HistoryOut(id) ==
    IF variant = "AMB" THEN AMB_list_transactions(accounts, id, NULL, NULL)
    ELSE G1_get_transaction_history(accounts, id)

\* create_account of the implementations C13 cites.
CreateAccountOut(username) ==
    IF variant = "AMB" THEN AMB_create_account(accounts, username, clock)
    ELSE G1_create_account(accounts, username)

\* An unknown account, with arguments that are otherwise valid, gives the not-found
\* code from each of the six operations.
C13_UnknownAccount ==
    \A id \in UnknownKeys :
        /\ \A a \in PositiveAmounts :
              /\ Refused(DepositOut(id, a), NotFoundErrors)
              /\ Refused(WithdrawOut(id, a), NotFoundErrors)
        /\ \A s \in SupportedSymbols \cap SymbolInputs, q \in PositiveQuantities :
              /\ Refused(BuyOut(id, s, q), NotFoundErrors)
              /\ Refused(SellOut(id, s, q), NotFoundErrors)
        /\ Refused(PortfolioOut(id), NotFoundErrors)
        /\ Refused(HistoryOut(id), NotFoundErrors)

\* The other causes, on an existing account: validation, overdraw, oversell, and a
\* repeated or empty username.
C13_OtherCauses ==
    /\ Refused(CreateAccountOut(""), ValidationErrors)
    /\ \A id \in DOMAIN accounts :
        /\ Refused(CreateAccountOut(accounts[id].username), DuplicateUsernameErrors)
        /\ \A a \in AmountInputs :
              /\ a <= 0 => /\ Refused(DepositOut(id, a), ValidationErrors)
                           /\ Refused(WithdrawOut(id, a), ValidationErrors)
              /\ a > CashOf(accounts[id]) =>
                    Refused(WithdrawOut(id, a), InsufficientFundsErrors)
        /\ \A s \in SupportedSymbols \cap SymbolInputs, q \in QuantityInputs :
              /\ q <= 0 => /\ Refused(BuyOut(id, s, q), ValidationErrors)
                           /\ Refused(SellOut(id, s, q), ValidationErrors)
              /\ q > 0 /\ PriceOf(s) * q > CashOf(accounts[id]) =>
                    Refused(BuyOut(id, s, q), InsufficientFundsErrors)
              /\ q > QtyOf(accounts[id], s) =>
                    Refused(SellOut(id, s, q), InsufficientSharesErrors)

\* C13 as stated, for the two implementations it cites: each failure cause maps to
\* one stable error code regardless of the operation that reports it; an unknown
\* account gives the not-found code, never the validation code, from deposit,
\* withdraw, buy, sell, portfolio and history alike.
C13_Original ==
    variant \in {"AMB", "G1"} => C13_UnknownAccount /\ C13_OtherCauses

(***************************************************************************)
(* AccountRepository with its objects: self._accounts maps an account_id   *)
(* to a reference to an Account object, whose holdings and transactions    *)
(* are references to a dict and a list.  Callers keep the references that  *)
(* create_account, get and mutate return and may change what they point at.*)
(* In this specification accounts holds references into heap.              *)
(***************************************************************************)
\* Largest number of repository calls one caller makes.
MaxCopies == 2

\* No reference.
NoRef == 0

\* The lowest address with no object.
FreshRef(h) == CHOOSE a \in 1..(Cardinality(DOMAIN h) + 1) : a \notin DOMAIN h

\* The heap with object v placed at address a.
Place(h, a, v) == [x \in DOMAIN h \cup {a} |-> IF x = a THEN v ELSE h[x]]

\* The Account object at a reference as a value: its dict and its list read through.
DerefAccount(h, ref) ==
    [username |-> h[ref].username,
     cash_balance |-> h[ref].cash_balance,
     holdings |-> h[h[ref].holdings].items,
     transactions |-> h[h[ref].transactions].items,
     created_at |-> h[ref].created_at]

\* Account(...) constructed from a value: three new objects.
NewAccount(h, account) ==
    LET d == FreshRef(h)
        h1 == Place(h, d, [items |-> account.holdings])
        l == FreshRef(h1)
        h2 == Place(h1, l, [items |-> account.transactions])
        a == FreshRef(h2)
    IN  [heap |-> Place(h2, a, [username |-> account.username,
                                cash_balance |-> account.cash_balance,
                                holdings |-> d, transactions |-> l,
                                created_at |-> account.created_at]),
         ref |-> a]

\* A copy of the Account object alone, sharing its dict and its list.
model_copy_shallow(h, ref) ==
    LET a == FreshRef(h)
    IN  [heap |-> Place(h, a, h[ref]), ref |-> a]

\* account.model_copy(deep=True)
model_copy(h, ref) == NewAccount(h, DerefAccount(h, ref))

\* The objects an Account reference leads to.
Cells(h, ref) == IF ref = NoRef THEN {} ELSE {ref, h[ref].holdings, h[ref].transactions}

\* The references a caller holds: the copy returned to it and, inside mutate, the
\* snapshot.
CallerRefs(th) == {th.held, th.snapshot} \ {NoRef}

\* Garbage collection: the objects still referred to by the repository or a caller.
Collect(h, accts, ths) ==
    LET roots == {accts[id] : id \in DOMAIN accts}
                 \cup UNION {CallerRefs(ths[t]) : t \in DOMAIN ths}
        live == UNION {Cells(h, r) : r \in roots}
    IN  [x \in live |-> h[x]]

\* A caller outside a call.
IdleHolder ==
    [pc |-> "idle", calls |-> 0, req |-> NULL, held |-> NoRef, tampered |-> FALSE,
     snapshot |-> NoRef, raised |-> NoExc]

\* The calls the callers choose from; a mutate is given its mutator as data.
CopyCalls ==
    {[op |-> "create_account", username |-> "bob", account_id |-> NULL,
      m |-> [kind |-> "none"]],
     [op |-> "get", username |-> NULL, account_id |-> "uuid1", m |-> [kind |-> "none"]],
     [op |-> "get", username |-> NULL, account_id |-> UnknownId, m |-> [kind |-> "none"]],
     [op |-> "mutate", username |-> NULL, account_id |-> "uuid1",
      m |-> [kind |-> "deposit", amount |-> 150000]],
     [op |-> "mutate", username |-> NULL, account_id |-> "uuid1",
      m |-> [kind |-> "buy", symbol |-> "AAPL", quantity |-> 1, price |-> 150000,
             total |-> 150000]],
     [op |-> "mutate", username |-> NULL, account_id |-> "uuid1",
      m |-> [kind |-> "raising", exc |-> Exc("VALIDATION_ERROR", "raised part-way")]]}

\* The next state: threads and heap as given, unreferenced objects collected.
Settle(h, accts, ths) ==
    /\ accounts' = accts
    /\ threads' = ths
    /\ heap' = Collect(h, accts, ths)

\* A caller starts a call; what it held from its last call is let go.
Copies_call(t) ==
    /\ threads[t].pc = "idle"
    /\ threads[t].calls < MaxCopies
    /\ \E c \in CopyCalls :
        Settle(heap, accounts,
               [threads EXCEPT ![t] = [IdleHolder EXCEPT !.pc = c.op, !.req = c,
                                                         !.calls = threads[t].calls]])
    /\ UNCHANGED <<variant, habits, today, data_file, clock, call, resp, applied, lock, hist>>

\* AccountRepository.create_account, under the lock from the test to the copy.
Copies_create_account(t) ==
    LET th == threads[t]
        r == Repo_create_account([id \in DOMAIN accounts |-> DerefAccount(heap, accounts[id])],
                                 th.req.username, clock)
        account_id == AccountIds[Cardinality(DOMAIN accounts) + 1]
        stored == NewAccount(heap, r.accounts[account_id])
        copy == model_copy(stored.heap, stored.ref)
    IN  /\ th.pc = "create_account"
        /\ LockFree(t)
        /\ IF r.raised # NoExc
           THEN Settle(heap, accounts,
                       [threads EXCEPT ![t] = [@ EXCEPT !.pc = "idle", !.calls = @ + 1,
                                                        !.raised = r.raised]])
           ELSE Settle(copy.heap,
                       [id \in DOMAIN accounts \cup {account_id} |->
                           IF id = account_id THEN stored.ref ELSE accounts[id]],
                       [threads EXCEPT ![t] = [@ EXCEPT !.pc = "idle", !.calls = @ + 1,
                                                        !.held = copy.ref]])
        /\ UNCHANGED <<variant, habits, today, data_file, clock, call, resp, applied, lock, hist>>

\* AccountRepository.get, under the lock.
Copies_get(t) ==
    LET th == threads[t]
        copy == model_copy(heap, accounts[th.req.account_id])
    IN  /\ th.pc = "get"
        /\ LockFree(t)
        /\ IF th.req.account_id \notin DOMAIN accounts
           THEN Settle(heap, accounts,
                       [threads EXCEPT ![t] = [@ EXCEPT !.pc = "idle", !.calls = @ + 1,
                             !.raised = Exc("NOT_FOUND", "ACCOUNT_NOT_FOUND_MESSAGE")]])
           ELSE Settle(copy.heap, accounts,
                       [threads EXCEPT ![t] = [@ EXCEPT !.pc = "idle", !.calls = @ + 1,
                                                        !.held = copy.ref]])
        /\ UNCHANGED <<variant, habits, today, data_file, clock, call, resp, applied, lock, hist>>

\* mutate: take the lock, look the account up, snapshot = account.model_copy(deep=True)
Copies_mutate_acquire(t) ==
    LET th == threads[t]
        copy == model_copy(heap, accounts[th.req.account_id])
    IN  /\ th.pc = "mutate"
        /\ LockFree(t)
        /\ lock' = t
        /\ IF th.req.account_id \notin DOMAIN accounts
           THEN Settle(heap, accounts,
                       [threads EXCEPT ![t] = [@ EXCEPT !.pc = "release",
                             !.raised = Exc("NOT_FOUND", "ACCOUNT_NOT_FOUND_MESSAGE")]])
           ELSE Settle(copy.heap, accounts,
                       [threads EXCEPT ![t] = [@ EXCEPT !.pc = "mutator",
                                                        !.snapshot = copy.ref]])
        /\ UNCHANGED <<variant, habits, today, data_file, clock, call, resp, applied, hist>>

\* mutator(account), first half: its check, and its writes of account.cash_balance
\* and account.holdings on the stored object.
Copies_mutator_fields(t) ==
    LET th == threads[t]
        ref == accounts[th.req.account_id]
        r == RunMutator(DerefAccount(heap, ref), th.req.m, clock)
        refused == r.raised # NoExc /\ th.req.m.kind # "raising"
        h1 == [heap EXCEPT ![ref].cash_balance = r.account.cash_balance,
                           ![heap[ref].holdings].items = r.account.holdings]
    IN  /\ th.pc = "mutator"
        /\ IF refused
           THEN Settle(heap, accounts,
                       [threads EXCEPT ![t] = [@ EXCEPT !.pc = "rollback",
                                                        !.raised = r.raised]])
           ELSE Settle(h1, accounts, [threads EXCEPT ![t].pc = "mutator_log"])
        /\ UNCHANGED <<variant, habits, today, data_file, clock, call, resp, applied, lock, hist>>

\* mutator(account), second half: account.transactions changed in place; a raising
\* mutator raises after it.
Copies_mutator_log(t) ==
    LET th == threads[t]
        ref == accounts[th.req.account_id]
        before == [DerefAccount(heap, ref) EXCEPT
                      !.cash_balance = DerefAccount(heap, th.snapshot).cash_balance,
                      !.holdings = DerefAccount(heap, th.snapshot).holdings]
        r == RunMutator(before, th.req.m, clock)
        h1 == [heap EXCEPT ![heap[ref].transactions].items = r.account.transactions]
    IN  /\ th.pc = "mutator_log"
        /\ Settle(h1, accounts,
                  [threads EXCEPT ![t] = [@ EXCEPT
                      !.pc = IF r.raised = NoExc THEN "return" ELSE "rollback",
                      !.raised = r.raised]])
        /\ UNCHANGED <<variant, habits, today, data_file, clock, call, resp, applied, lock, hist>>

\* mutate's except clauses: self._accounts[account_id] = snapshot; raise
Copies_rollback(t) ==
    LET th == threads[t]
    IN  /\ th.pc = "rollback"
        /\ Settle(heap, [accounts EXCEPT ![th.req.account_id] = th.snapshot],
                  [threads EXCEPT ![t] = [@ EXCEPT !.pc = "release", !.snapshot = NoRef]])
        /\ UNCHANGED <<variant, habits, today, data_file, clock, call, resp, applied, lock, hist>>

\* return account.model_copy(deep=True)
Copies_return(t) ==
    LET th == threads[t]
        copy == model_copy(heap, accounts[th.req.account_id])
    IN  /\ th.pc = "return"
        /\ Settle(copy.heap, accounts,
                  [threads EXCEPT ![t] = [@ EXCEPT !.pc = "release", !.held = copy.ref,
                                                   !.snapshot = NoRef]])
        /\ UNCHANGED <<variant, habits, today, data_file, clock, call, resp, applied, lock, hist>>

\* Leaving `with self._lock`.
Copies_release(t) ==
    /\ threads[t].pc = "release"
    /\ lock' = NoThread
    /\ Settle(heap, accounts, [threads EXCEPT ![t].pc = "idle", ![t].calls = @ + 1])
    /\ UNCHANGED <<variant, habits, today, data_file, clock, call, resp, applied, hist>>

\* What a caller does to the object it was handed: sets its cash balance, puts an
\* entry into its holdings dict, or appends to its transaction list.
TamperKinds == {"cash_balance", "holdings", "transactions"}

\* A record appended to a transaction list by a caller.
ForgedTransaction ==
    [timestamp |-> 0, type |-> "DEPOSIT", symbol |-> NULL, quantity |-> 0, amount |-> 7770,
     price_per_share |-> 0, resulting_cash_balance |-> 7770, resulting_holdings |-> <<>>]

Copies_tamper(t) ==
    LET th == threads[t]
        obj == heap[th.held]
    IN  /\ th.pc = "idle"
        /\ th.held # NoRef
        /\ ~th.tampered
        /\ \E kind \in TamperKinds :
            Settle(CASE kind = "cash_balance" -> [heap EXCEPT ![th.held].cash_balance = 7770]
                     [] kind = "holdings" ->
                          [heap EXCEPT ![obj.holdings].items = HoldingsSet(@, "XYZ", 7)]
                     [] kind = "transactions" ->
                          [heap EXCEPT ![obj.transactions].items = Append(@, ForgedTransaction)],
                   accounts, [threads EXCEPT ![t].tampered = TRUE])
        /\ UNCHANGED <<variant, habits, today, data_file, clock, call, resp, applied, lock, hist>>

InitCopies ==
    /\ variant = "AMB"
    /\ accounts = <<>>
    /\ clock = 0
    /\ call = "none"
    /\ resp = build_response(TRUE, "", NULL, NULL)
    /\ applied = 0
    /\ lock = NoThread
    /\ threads = [t \in Threads |-> IdleHolder]
    /\ hist = <<>>
    /\ heap = <<>>
    /\ habits = <<>>
    /\ today = 0
    /\ data_file = <<>>

NextCopies ==
    \E t \in Threads :
        \/ Copies_call(t)
        \/ Copies_create_account(t)
        \/ Copies_get(t)
        \/ Copies_mutate_acquire(t)
        \/ Copies_mutator_fields(t)
        \/ Copies_mutator_log(t)
        \/ Copies_rollback(t)
        \/ Copies_return(t)
        \/ Copies_release(t)
        \/ Copies_tamper(t)

SpecCopies == InitCopies /\ [][NextCopies]_vars

\* An account value the ledger can have left behind: its balance and holdings are
\* the ones its last transaction recorded, or those of a new account.
Settled(account) ==
    IF account.transactions = <<>>
    THEN account.cash_balance = 0 /\ DOMAIN account.holdings = {}
    ELSE LET last == account.transactions[Len(account.transactions)]
         IN  /\ account.cash_balance = last.resulting_cash_balance
             /\ account.holdings = last.resulting_holdings

\* C14: the Account objects that create_account, get and mutate return are deep
\* copies.  No object reachable from a returned Account is reachable from the
\* repository or from another caller's; whatever callers do to the objects they
\* were handed, the stored accounts stay as the ledger left them whenever nobody is
\* inside mutate; and every returned object, until its holder changes it, shows an
\* account as the ledger left it, never a partially applied mutation.
C14_DeepCopies ==
    /\ \A t \in Threads, id \in DOMAIN accounts :
          Cells(heap, threads[t].held) \cap Cells(heap, accounts[id]) = {}
    /\ \A t, u \in Threads :
          t # u => Cells(heap, threads[t].held) \cap Cells(heap, threads[u].held) = {}
    /\ lock = NoThread => \A id \in DOMAIN accounts : Settled(DerefAccount(heap, accounts[id]))
    /\ \A t \in Threads :
          threads[t].held # NoRef /\ ~threads[t].tampered
              => Settled(DerefAccount(heap, threads[t].held))

\* One caller has changed the holdings of the object it was handed while the other
\* caller is part-way through a mutation of the stored account, and the stored
\* account holds a share bought earlier.
C14_Witness ==
    /\ \E t \in Threads :
          /\ threads[t].tampered
          /\ "XYZ" \in DOMAIN heap[heap[threads[t].held].holdings].items
    /\ \E u \in Threads : threads[u].pc = "mutator_log"
    /\ \E id \in DOMAIN accounts : Len(DerefAccount(heap, accounts[id]).transactions) > 0

\* The size of an amount a transaction records, whatever sign it is stored under.
TxSize(tx) ==
    LET a == IF "total_amount" \in DOMAIN tx THEN tx.total_amount ELSE tx.amount
    IN  IF a < 0 THEN -a ELSE a

\* The amounts of the transactions of the given type in a log, added up.
RECURSIVE TotalOfType(_, _)
TotalOfType(log, type) ==
    IF log = <<>> THEN 0
    ELSE (IF Head(log).type = type THEN TxSize(Head(log)) ELSE 0) + TotalOfType(Tail(log), type)

\* The deposits into an account, an initial deposit counted, and the withdrawals.
DepositsOf(account) ==
    (IF "initial_deposit" \in DOMAIN account THEN account.initial_deposit ELSE 0)
    + TotalOfType(account.transactions, "DEPOSIT")
WithdrawalsOf(account) == TotalOfType(account.transactions, "WITHDRAWAL")

\* Cash plus quantity x current price over the held symbols.
RECURSIVE ValueOfHoldings(_, _)
ValueOfHoldings(account, symbols) ==
    IF symbols = {} THEN 0
    ELSE LET s == CHOOSE x \in symbols : TRUE
         IN  QtyOf(account, s) * PriceOf(s) + ValueOfHoldings(account, symbols \ {s})
TotalValueOf(account) == CashOf(account) + ValueOfHoldings(account, DOMAIN account.holdings)

\* The profit/loss the valuation of the running implementation reports.
ReportedProfitLoss(account) ==
    CASE variant = "AMB" -> AMB_profit_loss_data(account).profit_loss
      [] variant = "G2" -> G2_get_performance_metrics(account).profit_loss
      [] variant = "G3" ->
            G3_get_portfolio_summary(account, G3_current_prices(account)).total_profit_loss

\* The valuation reports a profit/loss for the account.
ReportsProfitLoss(account) ==
    variant = "AMB" => AMB_profit_loss_data(account).status # "NO_BASELINE"

\* C15 as stated, for the three implementations it cites: the profit/loss reported
\* equals the total portfolio value minus the net capital contributed, the deposits
\* (an initial deposit counted) minus the withdrawals.
C15_Original ==
    variant \in {"AMB", "G2", "G3"} =>
        \A id \in DOMAIN accounts :
            ReportsProfitLoss(accounts[id]) =>
                ReportedProfitLoss(accounts[id]) =
                    TotalValueOf(accounts[id])
                    - (DepositsOf(accounts[id]) - WithdrawalsOf(accounts[id]))

\* C15 amended: in gemini-3-preview-second-run and gemini-3-preview-third-run the
\* profit/loss reported equals the total portfolio value minus the net capital
\* contributed (deposits, an initial deposit counted, minus withdrawals).  In
\* account_management_backend the baseline is the sum of the deposits alone:
\* withdrawals are not subtracted from it, so the profit/loss reported is the total
\* portfolio value minus the deposits, and none is reported (status NO_BASELINE)
\* while the deposits sum to zero.
C15_ProfitLoss ==
    \A id \in DOMAIN accounts :
        LET account == accounts[id]
        IN  /\ variant \in {"G2", "G3"} =>
                  ReportedProfitLoss(account) =
                      TotalValueOf(account) - (DepositsOf(account) - WithdrawalsOf(account))
            /\ variant = "AMB" =>
                  /\ ReportsProfitLoss(account) <=> DepositsOf(account) > 0
                  /\ ReportsProfitLoss(account) =>
                        ReportedProfitLoss(account) = TotalValueOf(account) - DepositsOf(account)

\* The valuation of gemini-3-preview-second-run was asked for an account that has
\* deposited, bought a share and withdrawn.
C15_Witness ==
    /\ variant = "G2"
    /\ call = "profit_loss" /\ resp.success
    /\ \E id \in DOMAIN accounts :
        /\ WithdrawalsOf(accounts[id]) > 0
        /\ ValueOfHoldings(accounts[id], DOMAIN accounts[id].holdings) > 0

\* The sell each implementation would perform on the accounts accts.
SellOn(accts, id, symbol, quantity) ==
    CASE variant = "AMB" -> AMB_sell(accts, id, symbol, quantity, clock)
      [] variant = "G1" -> G1_sell_shares(accts, id, symbol, quantity)
      [] variant = "G2" -> G2_sell_shares(accts, id, symbol, quantity)
      [] variant = "G3" -> G3_sell_stock_service(accts, symbol, quantity)
      [] variant = "CG1" -> CG1_sell_shares(accts, symbol, quantity)
      [] OTHER -> CG2_sell_shares(accts, symbol, quantity)

\* C16: buying quantity q of a supported symbol and then selling the same q of that
\* symbol, the price unchanged and nothing in between, succeeds and returns the cash
\* balance to its pre-buy value and the holding of that symbol to its pre-buy
\* quantity (no entry, or an entry of zero, if it was not held before); the other
\* holdings are untouched.
C16_BuyThenSell ==
    \A id \in DOMAIN accounts, s \in SymbolInputs, q \in PositiveQuantities :
        LET bought == BuyOut(id, s, q)
            key == HoldingKey(s)
        IN  (LookupKnows(s) /\ bought.resp.success) =>
                LET sold == SellOn(bought.accounts, id, s, q)
                IN  /\ sold.resp.success
                    /\ CashOf(sold.accounts[id]) = CashOf(accounts[id])
                    /\ QtyOf(sold.accounts[id], key) = QtyOf(accounts[id], key)
                    /\ OthersUnchanged(accounts[id], sold.accounts[id], key)
                    /\ \A other \in DOMAIN accounts \ {id} :
                          sold.accounts[other] = accounts[other]

\* A share bought with the whole balance was sold again: the cash is back and the
\* symbol is no longer held.
C16_Witness ==
    /\ variant = "AMB"
    /\ call = "sell" /\ resp.success
    /\ \E id \in DOMAIN accounts :
        /\ accounts[id].cash_balance = 150000
        /\ QtyOf(accounts[id], "AAPL") = 0
        /\ Len(accounts[id].transactions) = 3
        /\ accounts[id].transactions[1].type = "DEPOSIT"
        /\ accounts[id].transactions[2].type = "BUY"
        /\ accounts[id].transactions[3].type = "SELL"

\* The withdrawal each implementation would perform on the accounts accts.
WithdrawOn(accts, id, amount) ==
    CASE variant = "AMB" -> AMB_withdraw(accts, id, amount, clock)
      [] variant = "G1" -> G1_withdraw(accts, id, amount)
      [] variant = "G2" -> G2_withdraw(accts, id, amount)
      [] variant = "G3" -> G3_withdraw_service(accts, amount)
      [] OTHER -> CG_withdraw(accts, amount)

\* C17 as stated, for the implementation it cites: depositing an amount a > 0 and
\* then withdrawing the same a, nothing in between, always succeeds and returns the
\* cash balance to its value before the deposit, leaving the holdings unchanged.
C17_Original ==
    variant = "AMB" =>
        \A id \in DOMAIN accounts, a \in PositiveAmounts :
            LET deposited == DepositOut(id, a)
                withdrawn == WithdrawOn(deposited.accounts, id, a)
            IN  /\ deposited.resp.success
                /\ withdrawn.resp.success
                /\ CashOf(withdrawn.accounts[id]) = CashOf(accounts[id])
                /\ withdrawn.accounts[id].holdings = accounts[id].holdings

\* Sequence s is the beginning of sequence t, record for record.
IsPrefix(s, t) == Len(s) <= Len(t) /\ SubSeq(t, 1, Len(s)) = s

\* C18: the transaction log is append-only and its records are immutable: whatever
\* operation is performed next, successful or rejected, a mutator that raises inside
\* mutate and is rolled back included, every account is still there and the record
\* at each position of its log is the record that was there before.
C18_AppendOnly ==
    [][\A id \in DOMAIN accounts :
          /\ id \in DOMAIN accounts'
          /\ IsPrefix(accounts[id].transactions, accounts'[id].transactions)]_vars

\* A mutator that had emptied the transaction list raised a domain error inside
\* mutate, and the log still holds its deposit, buy and sell.
C18_Witness ==
    /\ variant = "AMB"
    /\ call = "mutate" /\ ~resp.success /\ resp.error_code = "VALIDATION_ERROR"
    /\ \E id \in DOMAIN accounts :
        /\ Len(accounts[id].transactions) = 3
        /\ accounts[id].transactions[1].type = "DEPOSIT"
        /\ accounts[id].transactions[2].type = "BUY"
        /\ accounts[id].transactions[3].type = "SELL"

(***************************************************************************)
(* The concurrent callers of account_management_backend.py with a clock    *)
(* that advances: _now() is datetime.utcnow(), read by                      *)
(* _create_transaction inside the mutator, and time passes between any two *)
(* steps of any thread.  The clock never goes backwards.                   *)
(***************************************************************************)
\* The last instant the clock reaches.
MaxClock == 2

\* Time passes.
Clock_tick ==
    /\ clock < MaxClock
    /\ clock' = clock + 1
    /\ UNCHANGED <<variant, habits, today, data_file, heap, accounts, call, resp, applied, lock, threads, hist>>

InitClock == InitConc

NextClock ==
    \/ NextConc
    \/ Clock_tick

SpecClock == InitClock /\ [][NextClock]_vars

\* C19: transactions are appended in timestamp order: in every reachable state, with
\* concurrent callers and a clock that never goes backwards, the timestamps of an
\* account's log are non-decreasing in append order.
C19_TimestampOrder ==
    \A id \in DOMAIN accounts :
        LET log == accounts[id].transactions
        IN  \A i, j \in DOMAIN log : i < j => log[i].timestamp <= log[j].timestamp

\* Two threads each appended a transaction, the second at a later instant than the
\* first, after the two transactions the account started with.
C19_Witness ==
    /\ Quiescent
    /\ Len(hist) = 2 /\ hist[1].thread # hist[2].thread
    /\ LET log == accounts["uuid1"].transactions
       IN  /\ Len(log) = 4
           /\ log[2].timestamp = 0
           /\ log[3].timestamp = 1
           /\ log[4].timestamp = 2

(***************************************************************************)
(* Termination of the concurrent callers.  The threads are operating       *)
(* system threads: one that can take a step is eventually given the        *)
(* processor, and one waiting for the repository lock is woken when the    *)
(* lock is free.  Nothing obliges a caller to make a call.                 *)
(***************************************************************************)
\* The steps of thread t inside a call.
Conc_step(t) ==
    \/ Conc_acquire(t)
    \/ Conc_mutator(t)
    \/ Conc_read_cash(t)
    \/ Conc_write_cash(t)
    \/ Conc_write_holdings(t)
    \/ Conc_create_tx(t)
    \/ Conc_append_tx(t)
    \/ Conc_rollback(t)
    \/ Conc_release(t)

\* Where each thread is; every step inside a call moves its thread.
ConcPcs == [t \in Threads |-> threads[t].pc]

SpecConcFair == SpecConc /\ \A t \in Threads : WF_ConcPcs(Conc_step(t))

\* C20: every ledger operation terminates and releases the repository lock on its
\* success path and on every failure path: a thread that is not inside a call never
\* holds the lock, and with concurrent callers and fair scheduling every call that
\* was started eventually returns, so no caller is blocked forever.
C20_Terminates ==
    /\ [](\A t \in Threads : threads[t].pc = "idle" => lock # t)
    /\ \A t \in Threads : (threads[t].pc # "idle") ~> (threads[t].pc = "idle")

\* A sell that mutate refused and rolled back returned, and the call of the other
\* thread, which had to wait for the lock, then succeeded and returned too.
C20_Witness ==
    /\ lock = NoThread
    /\ \A t \in Threads : threads[t].pc = "idle" /\ threads[t].calls = 1
    /\ Len(hist) = 2 /\ hist[1].thread # hist[2].thread
    /\ hist[1].code = "INSUFFICIENT_SHARES"
    /\ hist[2].code = "OK"

\* The last record of a non-empty log.
Last(log) == log[Len(log)]

\* C21: each transaction of account_management_backend records the state right after
\* its own mutation: a step that appends a record to an account's log appends one
\* whose resulting_cash_balance and resulting_holdings are the account's cash and
\* holdings after that step, and whenever the log is non-empty its last record's
\* resulting cash and holdings are the account's current cash and holdings.
C21_ResultingState ==
    /\ [](variant = "AMB" =>
            \A id \in DOMAIN accounts :
                LET account == accounts[id]
                IN  account.transactions # <<>> =>
                        /\ Last(account.transactions).resulting_cash_balance = account.cash_balance
                        /\ Last(account.transactions).resulting_holdings = account.holdings)
    /\ [][variant = "AMB" =>
            \A id \in DOMAIN accounts :
                Len(accounts'[id].transactions) > Len(accounts[id].transactions) =>
                    /\ Len(accounts'[id].transactions) = Len(accounts[id].transactions) + 1
                    /\ Last(accounts'[id].transactions).resulting_cash_balance =
                          accounts'[id].cash_balance
                    /\ Last(accounts'[id].transactions).resulting_holdings =
                          accounts'[id].holdings]_vars

\* A sell of one of two shares was recorded: the record shows the cash after the sale
\* and the one share left, as the account does.
C21_Witness ==
    /\ variant = "AMB"
    /\ call = "sell" /\ resp.success
    /\ \E id \in DOMAIN accounts :
        LET log == accounts[id].transactions
        IN  /\ Len(log) = 3
            /\ log[3].type = "SELL"
            /\ log[3].resulting_cash_balance = 150000
            /\ log[3].resulting_holdings = accounts[id].holdings
            /\ QtyOf(accounts[id], "AAPL") = 1

(***************************************************************************)
(* account_management_backend.py with a clock that advances between the    *)
(* calls of one caller, and SnapshotService.snapshot asked for any instant *)
(* of the run.                                                             *)
(***************************************************************************)
\* The amounts deposited: half a cent, and the price of a share.
SnapAmounts == {5, 150000}

\* The timestamps asked for: before the creation, each instant of the run, the future.
SnapTimestamps == (0 - 1)..(MaxClock + 1)

Snap_create_account ==
    /\ variant = "AMB"
    /\ Do("create_account", AMB_create_account(accounts, "bob", clock), clock)

Snap_deposit ==
    /\ variant = "AMB"
    /\ \E account_id \in AccountIdInputs, amount \in SnapAmounts :
            Do("deposit", AMB_deposit(accounts, account_id, amount, clock), clock)

Snap_withdraw ==
    /\ variant = "AMB"
    /\ \E account_id \in AccountIdInputs :
            Do("withdraw", AMB_withdraw(accounts, account_id, 150000, clock), clock)

Snap_buy ==
    /\ variant = "AMB"
    /\ \E account_id \in AccountIdInputs :
            Do("buy", AMB_buy(accounts, account_id, "AAPL", 1, clock), clock)

Snap_sell ==
    /\ variant = "AMB"
    /\ \E account_id \in AccountIdInputs :
            Do("sell", AMB_sell(accounts, account_id, "AAPL", 1, clock), clock)

Snap_snapshot ==
    /\ variant = "AMB"
    /\ \E account_id \in AccountIdInputs, timestamp \in SnapTimestamps :
            Do("snapshot", AMB_snapshot(accounts, account_id, timestamp, clock), clock)

Snap_transactions ==
    /\ variant = "AMB"
    /\ \E account_id \in AccountIdInputs :
            Do("transactions", AMB_list_transactions(accounts, account_id, NULL, NULL), clock)

InitSnapshot ==
    /\ variant = "AMB"
    /\ accounts = <<>>
    /\ clock = 0
    /\ call = "none"
    /\ resp = build_response(TRUE, "", NULL, NULL)
    /\ applied = 0
    /\ lock = NoThread
    /\ threads = <<>>
    /\ hist = <<>>
    /\ heap = <<>>
    /\ habits = <<>>
    /\ today = 0
    /\ data_file = <<>>

NextSnapshot ==
    \/ Snap_create_account
    \/ Snap_deposit
    \/ Snap_withdraw
    \/ Snap_buy
    \/ Snap_sell
    \/ Snap_snapshot
    \/ Snap_transactions
    \/ Clock_tick

SpecSnapshot == InitSnapshot /\ [][NextSnapshot]_vars

\* The transactions of a log with a timestamp at or before T.
UpTo(log, T) == SelectSeq(log, LAMBDA tx : tx.timestamp <= T)

\* C22 as stated: snapshot reconstructs history by replaying the log: for every
\* timestamp T between the account's creation and now, the reported cash_balance and
\* holdings equal the resulting_cash_balance and resulting_holdings of the last
\* transaction whose timestamp is <= T (zero cash and no holdings if there is none);
\* in particular a snapshot at or after the last transaction equals the account's
\* current cash and holdings.
C22_Original ==
    \A id \in DOMAIN accounts : \A T \in accounts[id].created_at..clock :
        LET account == accounts[id]
            data == AMB_snapshot_data(account, T)
            before == UpTo(account.transactions, T)
        IN  /\ AMB_snapshot(accounts, id, T, clock).resp.success
            /\ IF before = <<>>
               THEN data.cash_balance = 0 /\ data.holdings = <<>>
               ELSE /\ data.cash_balance = Last(before).resulting_cash_balance
                    /\ data.holdings = Last(before).resulting_holdings
            /\ T = clock => /\ data.cash_balance = account.cash_balance
                            /\ data.holdings = account.holdings

\* The signed amount a record of gemini-3-preview (amount) or of
\* gemini-3-preview-second-run (total_amount) carries.
SignedAmountOf(tx) == IF variant = "G1" THEN tx.amount ELSE tx.total_amount

RECURSIVE SumSigned(_)
SumSigned(log) == IF log = <<>> THEN 0 ELSE SignedAmountOf(Head(log)) + SumSigned(Tail(log))

\* C23: in the implementations that record signed amounts (gemini-3-preview and
\* gemini-3-preview-second-run: positive for deposit and sell, negative for
\* withdrawal and buy), the sum of the amounts of all transactions in an account's
\* log equals the account's cash balance, after any sequence of operations.
C23_SignedSum ==
    variant \in {"G1", "G2"} =>
        \A id \in DOMAIN accounts :
            /\ SumSigned(accounts[id].transactions) = accounts[id].cash_balance
            /\ \A i \in DOMAIN accounts[id].transactions :
                  LET tx == accounts[id].transactions[i]
                  IN  IF tx.type \in {"DEPOSIT", "SELL"} THEN SignedAmountOf(tx) > 0
                      ELSE SignedAmountOf(tx) < 0

\* gemini-3-preview recorded a deposit, a buy and a withdrawal of what was left.
C23_Witness ==
    /\ variant = "G1"
    /\ call = "withdraw" /\ resp.success
    /\ \E id \in DOMAIN accounts :
        LET log == accounts[id].transactions
        IN  /\ Len(log) = 3
            /\ log[1].amount = 300000
            /\ log[2].type = "BUY" /\ log[2].amount = 0 - 150000
            /\ log[3].amount = 0 - 150000
            /\ accounts[id].cash_balance = 0

\* The INITIALIZE records of a log.
Initializations(log) == SelectSeq(log, LAMBDA tx : tx.type = "INITIALIZE")

\* C24: initialize of the crew modules can take effect only once: the log never holds
\* more than one INITIALIZE record, an account that is initialized holds exactly
\* one, and on an initialized account every initialize, whatever the amount, returns
\* the failure 'Account already initialized.' and leaves the cash balance, the total
\* deposits, the holdings and the transaction log unchanged.
C24_InitializeOnce ==
    variant \in {"CG1", "CG2"} =>
        LET account == accounts[Self]
        IN  /\ Len(Initializations(account.transactions)) = (IF account.initialized THEN 1 ELSE 0)
            /\ account.initialized =>
                  \A deposit_amount \in AmountInputs :
                      LET out == CG_initialize(accounts, deposit_amount)
                      IN  /\ ~out.resp.success
                          /\ out.resp.message = "already initialized"
                          /\ out.accounts = accounts

\* An initialize was refused on an account that had been initialized with $300 and
\* has since bought a share.
C24_Witness ==
    /\ variant = "CG1"
    /\ call = "initialize" /\ ~resp.success /\ resp.message = "already initialized"
    /\ accounts[Self].initialized
    /\ accounts[Self].total_deposits = 300000
    /\ accounts[Self].cash_balance = 150000
    /\ Len(accounts[Self].transactions) = 2

\* The order in which each implementation lists the transactions of a log.
ListingOf(transactions) ==
    IF variant = "AMB" THEN Repo_list_transactions(transactions)
    ELSE reversed(transactions)

\* C25 as stated: the transaction history listing is newest first: of any two
\* transactions of an account, the one appended later comes before the one appended
\* earlier, so the listing is the exact reverse of the append order.
C25_Original ==
    variant \in {"AMB", "G1", "CG1"} =>
        \A id \in DOMAIN accounts :
            LET log == accounts[id].transactions
                listing == ListingOf(log)
            IN  /\ Len(listing) = Len(log)
                /\ \A i \in DOMAIN log : listing[i] = log[Len(log) + 1 - i]

(***************************************************************************)
(* g3-daily-tracker-1th/habit_tracker_backend.py: HabitTracker, one caller *)
(* at a time.  A date is its day number; the "%Y-%m-%d" string of a date   *)
(* names exactly one day, and the tests of check_in compare those strings. *)
(***************************************************************************)
\* The last day of a run.
MaxDay == 7

HabitNameInputs == {"", "Read", "read"}
DailyTargetInputs == {0, 10}

\* HabitTracker._response
_response(success, message, data, code) ==
    [success |-> success, message |-> message, data |-> data, code |-> code]

\* What a call leaves: the habits, whether _save_data was reached, the response.
HT_Out(hs, saved, response) == [habits |-> hs, saved |-> saved, resp |-> response]

\* Habit(name=..., daily_target=...) created on day.
Habit(name, daily_target, day) ==
    [name |-> Strip(name), daily_target |-> daily_target, created_at |-> day,
     check_ins |-> <<>>, earned_badges |-> <<>>]

\* Habit.check_in_dates, as a set: the days checked in.
check_in_dates(habit) == {habit.check_ins[i] : i \in DOMAIN habit.check_ins}

\* The loop of current_streak: the days in a row ending at current_check.
RECURSIVE StreakEndingAt(_, _)
StreakEndingAt(dates, current_check) ==
    IF current_check \in dates THEN 1 + StreakEndingAt(dates, current_check - 1) ELSE 0

\* Habit.current_streak on day.
current_streak(habit, day) ==
    LET dates == check_in_dates(habit)
        last == CHOOSE d \in dates : \A e \in dates : e <= d
        yesterday == day - 1
    IN  IF dates = {} THEN 0
        ELSE IF last < yesterday THEN 0
        ELSE StreakEndingAt(dates, IF last = yesterday THEN yesterday ELSE day)

\* badges_map of check_badges, in the order it is gone through.
badges_map ==
    <<[threshold |-> 7, badge_name |-> "Bronze Badge (7 Days)"],
      [threshold |-> 30, badge_name |-> "Silver Badge (30 Days)"],
      [threshold |-> 100, badge_name |-> "Gold Badge (100 Days)"]>>

\* Habit.check_badges: the earned badges afterwards.
RECURSIVE check_badges_from(_, _, _)
check_badges_from(earned_badges, streak, k) ==
    IF k > Len(badges_map) THEN earned_badges
    ELSE LET b == badges_map[k]
             has == \E i \in DOMAIN earned_badges : earned_badges[i] = b.badge_name
         IN  check_badges_from(IF streak >= b.threshold /\ ~has
                               THEN Append(earned_badges, b.badge_name) ELSE earned_badges,
                               streak, k + 1)

check_badges(habit, day) ==
    [habit EXCEPT !.earned_badges = check_badges_from(@, current_streak(habit, day), 1)]

\* HabitTracker.create_habit
HT_create_habit(hs, name, daily_target, day) ==
    IF Strip(name) = ""
    THEN HT_Out(hs, FALSE, _response(FALSE, "valid name", NULL, "VALIDATION_ERROR"))
    ELSE IF daily_target <= 0
    THEN HT_Out(hs, FALSE, _response(FALSE, "numeric target", NULL, "VALIDATION_ERROR"))
    ELSE LET clean_name == Strip(name)
         IN  IF \E existing_name \in DOMAIN hs : Lower(existing_name) = Lower(clean_name)
             THEN HT_Out(hs, FALSE, _response(FALSE, "already exists", NULL, "CONFLICT_ERROR"))
             ELSE HT_Out([n \in DOMAIN hs \cup {clean_name} |->
                             IF n = clean_name THEN Habit(clean_name, daily_target, day)
                             ELSE hs[n]],
                         TRUE, _response(TRUE, "created", "habit", NULL))

\* A check_in that does not look for today's date among the check-ins.
HT_check_in_unchecked(hs, habit_name, day) ==
    IF habit_name \notin DOMAIN hs
    THEN HT_Out(hs, FALSE, _response(FALSE, "not found", NULL, "NOT_FOUND_ERROR"))
    ELSE LET appended == [hs[habit_name] EXCEPT !.check_ins = Append(@, day)]
         IN  HT_Out([hs EXCEPT ![habit_name] = check_badges(appended, day)],
                    TRUE, _response(TRUE, "recorded", "stats", NULL))

\* HabitTracker.check_in
HT_check_in(hs, habit_name, day) ==
    IF habit_name \notin DOMAIN hs
    THEN HT_Out(hs, FALSE, _response(FALSE, "not found", NULL, "NOT_FOUND_ERROR"))
    ELSE IF day \in check_in_dates(hs[habit_name])
    THEN HT_Out(hs, FALSE, _response(FALSE, "already checked in", NULL,
                                     "DUPLICATE_ACTION_ERROR"))
    ELSE LET appended == [hs[habit_name] EXCEPT !.check_ins = Append(@, day)]
         IN  HT_Out([hs EXCEPT ![habit_name] = check_badges(appended, day)],
                    TRUE, _response(TRUE, "recorded", "stats", NULL))

\* _save_data: every habit's model_dump, keyed by name.
_save_data(hs) == [n \in DOMAIN hs |-> hs[n]]

\* _load_data: Habit(**habit_data) for every record of the file that validates.
_load_data(file) ==
    [n \in {m \in DOMAIN file : Strip(file[m].name) # "" /\ file[m].daily_target > 0} |->
        [file[n] EXCEPT !.name = Strip(@)]]

\* A call returned out; a call that changed the habits saved them.
HT_Do(op, out) ==
    /\ habits' = out.habits
    /\ data_file' = IF out.saved THEN _save_data(out.habits) ELSE data_file
    /\ call' = op
    /\ resp' = out.resp
    /\ UNCHANGED <<variant, today, accounts, clock, applied, lock, threads, hist, heap>>

Step_HT_create_habit ==
    /\ variant = "HabitTracker"
    /\ \E name \in HabitNameInputs, daily_target \in DailyTargetInputs :
            HT_Do("create_habit", HT_create_habit(habits, name, daily_target, today))

Step_HT_check_in ==
    /\ variant = "HabitTracker"
    /\ \E habit_name \in HabitNameInputs :
            HT_Do("check_in", HT_check_in(habits, habit_name, today))

\* Midnight passes.
HT_next_day ==
    /\ variant = "HabitTracker"
    /\ today < MaxDay
    /\ today' = today + 1
    /\ UNCHANGED <<variant, habits, data_file, accounts, clock, call, resp, applied, lock,
                   threads, hist, heap>>

\* The application is started again: HabitTracker() loads the file.
HT_restart ==
    /\ variant = "HabitTracker"
    /\ habits' = _load_data(data_file)
    /\ call' = "__init__"
    /\ UNCHANGED <<variant, today, data_file, accounts, clock, resp, applied, lock,
                   threads, hist, heap>>

InitHabits ==
    /\ variant = "HabitTracker"
    /\ habits = <<>>
    /\ today = 0
    /\ data_file = <<>>
    /\ call = "none"
    /\ resp = _response(TRUE, "", NULL, NULL)
    /\ accounts = <<>>
    /\ clock = 0
    /\ applied = 0
    /\ lock = NoThread
    /\ threads = <<>>
    /\ hist = <<>>
    /\ heap = <<>>

NextHabits ==
    \/ Step_HT_create_habit
    \/ Step_HT_check_in
    \/ HT_next_day
    \/ HT_restart

SpecHabits == InitHabits /\ [][NextHabits]_vars

\* C26: a habit can be checked in at most once per calendar day: the check_ins list
\* of a habit never contains the same date twice, and a check_in for a habit that
\* already has today's date returns DUPLICATE_ACTION_ERROR and leaves its check_ins
\* and earned_badges (and every other habit) unchanged.
C26_OncePerDay ==
    /\ \A n \in DOMAIN habits :
          \A i, j \in DOMAIN habits[n].check_ins :
              i # j => habits[n].check_ins[i] # habits[n].check_ins[j]
    /\ \A habit_name \in DOMAIN habits :
          today \in check_in_dates(habits[habit_name]) =>
              LET out == HT_check_in(habits, habit_name, today)
              IN  /\ ~out.resp.success
                  /\ out.resp.code = "DUPLICATE_ACTION_ERROR"
                  /\ out.habits = habits
                  /\ ~out.saved

\* A second check-in on the same day was refused for a habit that has been checked
\* in on seven days running and holds the bronze badge.
C26_Witness ==
    /\ variant = "HabitTracker"
    /\ call = "check_in" /\ ~resp.success /\ resp.code = "DUPLICATE_ACTION_ERROR"
    /\ "Read" \in DOMAIN habits
    /\ Len(habits["Read"].check_ins) = 7
    /\ Len(habits["Read"].earned_badges) = 1
    /\ today \in check_in_dates(habits["Read"])

(***************************************************************************)
(* PortfolioService.compute_profit_loss called by one more thread while    *)
(* the concurrent callers of account_management_backend.py mutate the      *)
(* account.  AccountRepository.get copies the account under the lock, so   *)
(* each get is one step, taken when the lock is free; compute_profit_loss  *)
(* makes two of them.                                                      *)
(***************************************************************************)
Reader == "reader"

\* The reading thread before its call: where it is and what it has computed.
IdleReader ==
    [pc |-> "idle", total_portfolio_value |-> 0, baseline |-> 0, profit_loss |-> 0,
     status |-> "none"]

\* compute_profit_loss is called.
Reader_call ==
    /\ threads[Reader].pc = "idle"
    /\ threads' = [threads EXCEPT ![Reader].pc = "portfolio"]
    /\ UNCHANGED <<variant, habits, today, data_file, heap, accounts, clock, call, resp,
                   applied, lock, hist>>

\* portfolio = self.compute_portfolio(account_id): the first get and the valuation of
\* the copy it returned.
Reader_portfolio ==
    LET portfolio == AMB_compute_portfolio(accounts, "uuid1")
    IN  /\ threads[Reader].pc = "portfolio"
        /\ LockFree(Reader)
        /\ IF ~portfolio.resp.success
           THEN /\ threads' = [threads EXCEPT ![Reader].pc = "done", ![Reader].status = "failed"]
                /\ call' = "profit_loss"
                /\ resp' = portfolio.resp
           ELSE /\ threads' = [threads EXCEPT
                      ![Reader].pc = "baseline",
                      ![Reader].total_portfolio_value =
                          AMB_portfolio_data(accounts["uuid1"]).total_portfolio_value]
                /\ UNCHANGED <<call, resp>>
        /\ UNCHANGED <<variant, habits, today, data_file, heap, accounts, clock, applied,
                       lock, hist>>

\* account = self.repo.get(...): the second get, the baseline summed over the copy's
\* transactions, and the envelope.
Reader_baseline ==
    LET got == Repo_get(accounts, "uuid1")
        baseline == SumAmounts(got.account.transactions, {"DEPOSIT"})
        total_value == threads[Reader].total_portfolio_value
        profit_loss == Round2(total_value - baseline)
    IN  /\ threads[Reader].pc = "baseline"
        /\ LockFree(Reader)
        /\ call' = "profit_loss"
        /\ IF got.raised # NoExc
           THEN /\ threads' = [threads EXCEPT ![Reader].pc = "done", ![Reader].status = "failed"]
                /\ resp' = build_response(FALSE, got.raised.message, NULL, got.raised.code)
           ELSE IF baseline = 0
           THEN /\ threads' = [threads EXCEPT ![Reader].pc = "done",
                                              ![Reader].status = "NO_BASELINE"]
                /\ resp' = build_response(TRUE, "NO_BASELINE_MESSAGE", "profit_loss", NULL)
           ELSE /\ threads' = [threads EXCEPT
                      ![Reader].pc = "done",
                      ![Reader].baseline = Round2(baseline),
                      ![Reader].profit_loss = profit_loss,
                      ![Reader].status = IF profit_loss > 0 THEN "Profit"
                                         ELSE IF profit_loss < 0 THEN "Loss"
                                         ELSE "Break-even"]
                /\ resp' = build_response(TRUE, "P/L calculated.", "profit_loss", NULL)
        /\ UNCHANGED <<variant, habits, today, data_file, heap, accounts, clock, applied,
                       lock, hist>>

InitReader ==
    /\ variant = "AMB"
    /\ accounts = ConcStart
    /\ clock = 0
    /\ call = "none"
    /\ resp = build_response(TRUE, "", NULL, NULL)
    /\ applied = 0
    /\ lock = NoThread
    /\ threads = [t \in Threads \cup {Reader} |-> IF t = Reader THEN IdleReader ELSE IdleThread]
    /\ hist = <<>>
    /\ heap = <<>>
    /\ habits = <<>>
    /\ today = 0
    /\ data_file = <<>>

NextReader ==
    \/ NextConc
    \/ Reader_call
    \/ Reader_portfolio
    \/ Reader_baseline

SpecReader == InitReader /\ [][NextReader]_vars

\* The states the account has had, or is about to have: the one the run started with
\* and the one after each call that has entered mutate, in the order they took the lock.
AccountStates == {ReplayAccounts(n)["uuid1"] : n \in 0..Len(hist)}

\* C27 as stated: compute_profit_loss reports figures of one consistent account state:
\* in every interleaving with concurrent deposits, withdrawals and trades on the same
\* account, the returned total_portfolio_value, baseline and profit_loss all belong to
\* a single state the account had, so profit_loss = (cash + holdings value) - (sum of
\* deposits) of that state.
C27_Original ==
    (threads[Reader].pc = "done" /\ threads[Reader].status \in {"Profit", "Loss", "Break-even"}) =>
        \E account \in AccountStates :
            /\ threads[Reader].total_portfolio_value =
                  AMB_portfolio_data(account).total_portfolio_value
            /\ threads[Reader].baseline = AMB_profit_loss_data(account).baseline
            /\ threads[Reader].profit_loss = AMB_profit_loss_data(account).profit_loss

\* TradingSimulation.get_portfolio_metrics: holdings whose price lookup raises are
\* skipped; the four figures are quantized on the way out.
CG_get_portfolio_metrics(account) ==
    LET priced == {s \in DOMAIN account.holdings : CG_get_share_price(s).raised = NoExc}
        total_holdings_value == ValueOfHoldings(account, priced)
        total_portfolio_value == account.cash_balance + total_holdings_value
        profit_loss == total_portfolio_value - account.total_deposits
                           + account.total_withdrawals
    IN  [cash_balance |-> Quantize(account.cash_balance),
         total_holdings_value |-> Quantize(total_holdings_value),
         total_portfolio_value |-> Quantize(total_portfolio_value),
         profit_loss |-> Quantize(profit_loss)]

\* C28 as stated: for the crew_generated TradingSimulation, after any sequence of
\* initialize, deposit, withdraw, buy_shares and sell_shares calls in any order, value
\* is conserved: cash_balance + sum(quantity x fixed price) = total_deposits -
\* total_withdrawals, that is, get_portfolio_metrics().profit_loss is 0.
C28_Original ==
    variant = "CG1" =>
        /\ TotalValueOf(accounts[Self]) =
              accounts[Self].total_deposits - accounts[Self].total_withdrawals
        /\ CG_get_portfolio_metrics(accounts[Self]).profit_loss = 0

\* C29 as stated: for accounts of the AccountRepository-based backend, after any
\* sequence of operations, cash_balance + sum(quantity x fixed price over holdings)
\* equals the sum of the DEPOSIT amounts minus the sum of the WITHDRAWAL amounts in the
\* account's log.
C29_Original ==
    variant = "AMB" =>
        \A id \in DOMAIN accounts :
            TotalValueOf(accounts[id]) =
                SumAmounts(accounts[id].transactions, {"DEPOSIT"})
                    - SumAmounts(accounts[id].transactions, {"WITHDRAWAL"})

\* C30 as stated: holdings are keyed by canonical symbol: after any sequence of buy and
\* sell calls with symbols in any letter case, every key of an account's holdings is
\* one of the upper-case supported symbols, so shares bought under one spelling of a
\* symbol ('aapl') are held under, and can be sold from, the holding of the upper-case
\* spelling ('AAPL').  The claim names the gemini-3-preview engine, the crew
\* TradingAccount and the AccountRepository-based backend.
C30_Original ==
    variant \in {"AMB", "G1", "CG2"} =>
        \A id \in DOMAIN accounts :
            DOMAIN accounts[id].holdings \subseteq SupportedSymbols

====
